---- MODULE Spec2Model ----
(***************************************************************************)
(* Model of the ghss enrichment engine: the breadth-first Walker           *)
(* (src/lib/walker.rs) driving Pipeline::run_one (ghss/src/pipeline.rs)    *)
(* over AuditContext values (src/lib/context.rs), and the projection of a  *)
(* processed context into the AuditNode tree (src/lib/output.rs); and, on  *)
(* their own, deduplicate_advisories (src/lib/advisory.rs) and             *)
(* AdvisoryStage::run (src/lib/stages/advisory.rs).                        *)
(*                                                                         *)
(* An ActionRef is represented by its raw string: the walker keys every    *)
(* map and the visited set on action.raw only.                             *)
(***************************************************************************)
EXTENDS Integers, Sequences, FiniteSets, TLC

\* ------------------------------------------------------------------ bounds
MaxRoots == 2
MaxChildren == 1
MaxDepthBound == 1
MaxConcurrency == 2
MaxStages == 3
MaxAliases == 1
MaxAdvisories == 3
MaxProviders == 2
MaxRawLen == 4
MaxJobs == 2
MaxSteps == 2
MaxRecords == 2
MaxVulnerabilities == 2
MaxEvents == 2
MaxItems == 2

\* The raw strings of the actions that exist in the modelled world.
Raws == {"A", "B", "C"}

\* Option<String>::None
None == "None"

\* Option<usize>: None is the empty sequence, Some(n) the sequence <<n>>.
Unlimited == <<>>
Some(n) == <<n>>

SeqsUpTo(S, n) == UNION {[1..k -> S] : k \in 0..n}

\* The walker only compares raw strings for equality, so root lists are taken
\* up to renaming: a root list introduces the names in the order A, B, C.
\* Reported children are any raws, in any order.
RawOrder == <<"A", "B", "C">>
Canonical(r) ==
    \A i \in 1..Len(r) :
        LET before == {r[j] : j \in 1..(i - 1)}
        IN r[i] \in before \/ (Cardinality(before) < Len(RawOrder)
                                /\ r[i] = RawOrder[Cardinality(before) + 1])
RootLists == {r \in SeqsUpTo(Raws, MaxRoots) : Canonical(r)}

\* The child lists a remote action.yml can declare.
ChildLists == SeqsUpTo(Raws, MaxChildren)

\* Fixed action graphs: every raw has one action.yml, with the `uses` it lists
\* in order. The graph of the walker's own tests (A -> [B, C], B -> [D]), a
\* diamond, a cycle through the root, a listing that names a child twice and
\* a self-reference.
GraphRaws == Raws \cup {"D"}
Graph(a, b, c, d) == [r \in GraphRaws |->
                        IF r = "A" THEN a ELSE IF r = "B" THEN b ELSE IF r = "C" THEN c ELSE d]
Graphs == {Graph(<<"B", "C">>, <<"D">>, <<>>, <<>>),
           Graph(<<"C", "B">>, <<"D">>, <<"D">>, <<>>),
           Graph(<<"B", "C">>, <<"C", "A">>, <<"D", "B">>, <<"A">>),
           Graph(<<"B", "B", "C">>, <<>>, <<"D">>, <<>>),
           Graph(<<"A", "C">>, <<"A">>, <<"B">>, <<>>)}
GraphRoots == {<<"A">>, <<"A", "B">>, <<"B", "A">>, <<"C", "A", "C">>}

\* ------------------------------------------------------------------ state
VARIABLES
    world,            \* the forge: raw -> the children its action.yml lists, for the
                      \* repositories whose content is fixed; any other may list anything
    max_depth,        \* Walker.max_depth: Option<usize>
    max_concurrency,  \* Walker.max_concurrency
    roots,            \* the root_actions argument of walk
    visited,          \* HashSet<String>
    semaphore,        \* available permits of the tokio Semaphore
    frontier,         \* VecDeque<(ActionRef, usize, Option<String>)>
    all_nodes,        \* HashMap<String, ProcessedNode>
    root_keys,        \* Vec<String>
    children_order,   \* HashMap<String, Vec<String>>
    handles,          \* the spawned tasks of the current level
    pc,               \* position of walk: "loop", "join", "done"
    tree,             \* the value walk returns
    runs,             \* history: raw -> number of pipeline runs started for it
    started,          \* history: (raw, depth, parent) of every pipeline run started
    finished,         \* history: the raws whose pipeline run has completed
    enqueue_log,      \* history: every (child, depth, parent) pushed on the frontier
    admitted,         \* history: every (raw, depth, parent) that passed the visited filter
    level_finish,     \* history: handle indices of the latest level in completion order
    results,          \* history: raw -> final context, stages run and what each returned
    \* Pipeline::run_one on its own, over a pipeline of arbitrary stages
    p_stages,         \* Pipeline.stages: the stage names in builder order
    p_ctx,            \* the context handed to run_one
    p_next,           \* position of the for loop: index of the next stage
    p_log,            \* history: names of the stages run, in execution order
    p_results,        \* history: what each stage run returned
    p_last,           \* history: the last stage run: its name, the context it got and what it left behind
    p_pc,             \* "off", "run", "done"
    \* deduplicate_advisories on its own
    d_in,             \* the advisories handed to deduplicate_advisories
    d_out,            \* what it returned for d_in
    d_twice,          \* what it returned for d_out
    d_doubled,        \* what it returned for d_in ++ d_in
    d_pc,             \* "off", "first", "again", "doubled", "done"
    \* AdvisoryStage::run on its own
    a_providers,      \* AdvisoryStage.providers: name and what its query will answer
    a_results,        \* the futures handed to join_all: index -> Pending or the answer
    a_completion,     \* history: provider indices in the order their queries completed
    a_ctx,            \* the context handed to run
    a_fed,            \* history: the list handed to deduplicate_advisories
    a_ret,            \* what run returned
    a_pc,             \* "off", "query", "done"
    \* GitHubClient::resolve_ref, as RefResolveStage::run calls it
    r_action,         \* the ActionRef: its ref_type and git_ref
    r_requests,       \* history: the requests sent, each with the answer it got
    r_json,           \* the ref object still to be dereferenced (pc = "deref")
    r_ret,            \* what resolve_ref returned
    r_ctx,            \* the context of the stage
    r_pc,             \* "off", "start", "tag", "branch", "deref", "done"
    \* DependencyStage::run on its own
    n_providers,      \* DependencyStage.providers: the names, in declared order
    n_ctx,            \* the context handed to run
    n_requests,       \* history: the package.json fetch and the provider queries
    n_packages,       \* the (name, version) pairs still to be queried
    n_reports,        \* the local `reports`
    n_pc,             \* "off", "fetch", "query", "done"
    \* the parsers and classifiers, applied to one input
    f_fn,             \* which function is applied ("off" when none)
    f_in,             \* its argument
    f_out             \* what it returned (<<>> before the call)

wvars == <<world, max_depth, max_concurrency, roots, visited, semaphore, frontier,
           all_nodes, root_keys, children_order, handles, pc, tree,
           runs, started, finished, enqueue_log, admitted, level_finish, results>>

pvars == <<p_stages, p_ctx, p_next, p_log, p_results, p_last, p_pc>>

dvars == <<d_in, d_out, d_twice, d_doubled, d_pc>>

avars == <<a_providers, a_results, a_completion, a_ctx, a_fed, a_ret, a_pc>>

rvars == <<r_action, r_requests, r_json, r_ret, r_ctx, r_pc>>

nvars == <<n_providers, n_ctx, n_requests, n_packages, n_reports, n_pc>>

fvars == <<f_fn, f_in, f_out>>

vars == <<wvars, pvars, dvars, avars, rvars, nvars, fvars>>

\* What the walker, run_one, deduplicate_advisories and AdvisoryStage::run
\* each leave alone.
nonwalker == <<pvars, dvars, avars, rvars, nvars, fvars>>
nonpipe == <<wvars, dvars, avars, rvars, nvars, fvars>>
nondedup == <<wvars, pvars, avars, rvars, nvars, fvars>>
nonadvisory == <<wvars, pvars, dvars, rvars, nvars, fvars>>
nonresolve == <<wvars, pvars, dvars, avars, nvars, fvars>>
nondependency == <<wvars, pvars, dvars, avars, rvars, fvars>>
nonfunctions == <<wvars, pvars, dvars, avars, rvars, nvars>>

\* ---------------------------------------------------------------- context
Ok == "Ok"

\* The stages of the pipeline the walker drives, in builder order.
Stages == <<"CompositeExpand", "RefResolve">>

\* Mutant of NewContext: the parent key is not carried into the context.
NewContextNoParent(action, depth, parent_key, i) ==
    [action |-> action, depth |-> depth, parent |-> None,
     children |-> <<>>, index |-> i, resolved_ref |-> None,
     advisories |-> <<>>, scan |-> None, dependencies |-> <<>>,
     errors |-> <<>>]

\* AuditContext literal built by the walker task.
NewContext(action, depth, parent_key, i) ==
    [action |-> action, depth |-> depth, parent |-> parent_key,
     children |-> <<>>, index |-> i, resolved_ref |-> None,
     advisories |-> <<>>, scan |-> None, dependencies |-> <<>>,
     errors |-> <<>>]

\* AuditContext::record_error
record_error(ctx, stage, error) ==
    [ctx EXCEPT !.errors = Append(@, [stage |-> stage, message |-> error])]

\* What one call of stage.run can do to the context: the context it leaves
\* behind and the Result it returns (Ok, or the error text).
\* CompositeExpandStage::run: a fetch error is returned with `?` before any
\* mutation; otherwise the parsed children (none for a leaf) are appended.
CompositeExpandRun(ctx) ==
    {[ctx |-> ctx, result |-> "fetch failed"]}
    \cup {[ctx |-> [ctx EXCEPT !.children = @ \o c], result |-> Ok] : c \in IF ctx.action \in DOMAIN world THEN {world[ctx.action]} ELSE ChildLists}

\* The refs of the modelled world that the forge cannot resolve to a commit.
Unresolvable == {"C"}

\* RefResolveStage::run: stores the sha, or records the failure itself; always Ok.
RefResolveRun(ctx) ==
    IF ctx.action \notin Unresolvable
    THEN {[ctx |-> [ctx EXCEPT !.resolved_ref = "sha"], result |-> Ok]}
    ELSE {[ctx |-> [ctx EXCEPT !.errors =
                       Append(@, [stage |-> "RefResolve", message |-> "resolve failed"])],
           result |-> Ok]}

\* The names given to the stages of a pipeline under test.
StageNames == {"before", "bad"}

\* trait Stage: run gets exclusive mutable access to the context and returns
\* a Result, so an arbitrary stage may leave any mutation behind and return
\* Ok or Err whatever it did.
DynStageRun(ctx) ==
    LET mutated == {ctx,
                    [ctx EXCEPT !.children = Append(@, "A")],
                    [ctx EXCEPT !.resolved_ref = "sha"],
                    [ctx EXCEPT !.errors = Append(@, [stage |-> "self", message |-> "recorded"])]}
    IN {[ctx |-> c, result |-> r] : c \in mutated, r \in {Ok, "boom"}}

StageRun(name, ctx) ==
    IF name = "CompositeExpand" THEN CompositeExpandRun(ctx) ELSE RefResolveRun(ctx)

\* Mutant of RunOneStep: a failed stage is rolled back to the context it was given.
RunOneStepRollback(name, before, out) ==
    IF out.result # Ok THEN record_error(before, name, out.result) ELSE out.ctx

\* One iteration of the loop of Pipeline::run_one: the stage has run and
\* returned `out`; an Err is recorded on the context, then the loop goes on.
RunOneStep(name, before, out) ==
    IF out.result # Ok THEN record_error(out.ctx, name, out.result) ELSE out.ctx

\* Mutant of NextStage: the loop is left at the first stage error.
NextStageStopOnError(i, n, result) == IF result # Ok THEN n + 1 ELSE i + 1

\* The for loop of run_one: after stage i of n, whatever it returned, stage
\* i + 1 is next (n + 1: the loop is over).
NextStage(i, n, result) == i + 1

\* ----------------------------------------------------------------- output
\* From<AuditContext> for ActionEntry
ActionEntryFrom(ctx) ==
    [action |-> ctx.action, resolved_sha |-> ctx.resolved_ref,
     advisories |-> ctx.advisories, scan |-> ctx.scan,
     dep_vulnerabilities |-> ctx.dependencies]

\* From<AuditContext> for AuditNode
AuditNodeFrom(ctx) == [entry |-> ActionEntryFrom(ctx), children |-> <<>>]

\* Mutant of build_tree: a node is read from the map, not removed from it.
RECURSIVE build_tree_get(_, _, _)
build_tree_get(nodes, keys, order) ==
    IF keys = <<>> THEN [result |-> <<>>, nodes |-> nodes]
    ELSE LET key == Head(keys) IN
         IF key \in DOMAIN nodes
         THEN LET processed == nodes[key]
                  child_keys == IF key \in DOMAIN order THEN order[key] ELSE <<>>
                  sub == build_tree_get(nodes, child_keys, order)
                  node == [AuditNodeFrom(processed.context) EXCEPT !.children = sub.result]
                  rest == build_tree_get(sub.nodes, Tail(keys), order)
              IN [result |-> <<node>> \o rest.result, nodes |-> rest.nodes]
         ELSE build_tree_get(nodes, Tail(keys), order)

\* build_tree: returns the nodes built for `keys` and what is left of the map.
RECURSIVE build_tree(_, _, _)
build_tree(nodes, keys, order) ==
    IF keys = <<>> THEN [result |-> <<>>, nodes |-> nodes]
    ELSE LET key == Head(keys) IN
         IF key \in DOMAIN nodes
         THEN LET processed == nodes[key]
                  removed == [k \in DOMAIN nodes \ {key} |-> nodes[k]]
                  child_keys == IF key \in DOMAIN order THEN order[key] ELSE <<>>
                  sub == build_tree(removed, child_keys, order)
                  node == [AuditNodeFrom(processed.context) EXCEPT !.children = sub.result]
                  rest == build_tree(sub.nodes, Tail(keys), order)
              IN [result |-> <<node>> \o rest.result, nodes |-> rest.nodes]
         ELSE build_tree(nodes, Tail(keys), order)

\* ----------------------------------------------------------------- walker
\* Mutant of FilterVisited: the visited set is never consulted.
RECURSIVE FilterVisitedNoCheck(_, _, _)
FilterVisitedNoCheck(level, vis, acc) ==
    IF level = <<>> THEN [visited |-> vis, to_process |-> acc]
    ELSE LET e == Head(level) IN
         FilterVisitedNoCheck(Tail(level), vis \cup {e.action},
                              Append(acc, [action |-> e.action, depth |-> e.depth,
                                           parent_key |-> e.parent_key, key |-> e.action]))

\* Mutant of FilterVisited: of the entries of one level with the same raw the
\* last one is kept, not the first.
RECURSIVE FilterVisitedKeepLast(_, _, _)
FilterVisitedKeepLast(level, vis, acc) ==
    IF level = <<>> THEN [visited |-> vis, to_process |-> acc]
    ELSE LET e == Head(level) IN
         IF e.action \in vis \/ \E j \in 2..Len(level) : level[j].action = e.action
         THEN FilterVisitedKeepLast(Tail(level), vis, acc)
         ELSE FilterVisitedKeepLast(Tail(level), vis \cup {e.action},
                                    Append(acc, [action |-> e.action, depth |-> e.depth,
                                                 parent_key |-> e.parent_key, key |-> e.action]))

\* walk, lines 63-73: drop the entries whose raw is already visited, mark the others.
RECURSIVE FilterVisited(_, _, _)
FilterVisited(level, vis, acc) ==
    IF level = <<>> THEN [visited |-> vis, to_process |-> acc]
    ELSE LET e == Head(level) IN
         IF e.action \in vis
         THEN FilterVisited(Tail(level), vis, acc)
         ELSE FilterVisited(Tail(level), vis \cup {e.action},
                            Append(acc, [action |-> e.action, depth |-> e.depth,
                                         parent_key |-> e.parent_key, key |-> e.action]))

\* Mutant of TrackKeys: a new child key is put in front of its parent's list.
RECURSIVE TrackKeysPrepend(_, _, _)
TrackKeysPrepend(to_process, rk, co) ==
    IF to_process = <<>> THEN [root_keys |-> rk, children_order |-> co]
    ELSE LET e == Head(to_process)
             rk1 == IF e.depth = 0 THEN Append(rk, e.key) ELSE rk
             co1 == IF e.parent_key # None
                    THEN IF e.parent_key \in DOMAIN co
                         THEN [co EXCEPT ![e.parent_key] = <<e.key>> \o @]
                         ELSE co @@ (e.parent_key :> <<e.key>>)
                    ELSE co
         IN TrackKeysPrepend(Tail(to_process), rk1, co1)

\* walk, lines 80-90: record roots and the child order of every parent.
RECURSIVE TrackKeys(_, _, _)
TrackKeys(to_process, rk, co) ==
    IF to_process = <<>> THEN [root_keys |-> rk, children_order |-> co]
    ELSE LET e == Head(to_process)
             rk1 == IF e.depth = 0 THEN Append(rk, e.key) ELSE rk
             co1 == IF e.parent_key # None
                    THEN IF e.parent_key \in DOMAIN co
                         THEN [co EXCEPT ![e.parent_key] = Append(@, e.key)]
                         ELSE co @@ (e.parent_key :> <<e.key>>)
                    ELSE co
         IN TrackKeys(Tail(to_process), rk1, co1)

\* Mutant of should_expand: the depth limit is never applied.
should_expand_always(md, depth) == TRUE

\* Mutant of should_expand: only the children of the roots are ever expanded.
should_expand_roots_only(md, depth) == IF md = Unlimited THEN depth < 1 ELSE depth < md[1]

\* Mutant of should_expand: the children of a node at max_depth are expanded too.
should_expand_inclusive(md, depth) == IF md = Unlimited THEN TRUE ELSE depth <= md[1]

\* walk, lines 144-147
should_expand(md, depth) == IF md = Unlimited THEN TRUE ELSE depth < md[1]

\* Mutant of JoinAllReady: the walker goes on once every task has started.
JoinAllStarted(hs) == \A i \in 1..Len(hs) : hs[i].status # "spawned"

\* join_all is complete when every handle has completed.
JoinAllReady(hs) == \A i \in 1..Len(hs) : hs[i].status = "finished"

\* Mutant of JoinAllResults: the outputs come in completion order.
JoinAllResultsByCompletion(hs, completion) ==
    [i \in 1..Len(hs) |-> [key |-> hs[completion[i]].key, context |-> hs[completion[i]].ctx]]

\* join_all returns the outputs in the order of the handles, whatever the
\* order in which the tasks completed.
JoinAllResults(hs, completion) ==
    [i \in 1..Len(hs) |-> [key |-> hs[i].key, context |-> hs[i].ctx]]

\* Mutant of CollectResults: a child is enqueued with the depth of its parent.
RECURSIVE CollectResultsSameDepth(_, _, _, _, _)
CollectResultsSameDepth(rs, nodes, fr, elog, md) ==
    IF rs = <<>> THEN [all_nodes |-> nodes, frontier |-> fr, enqueue_log |-> elog]
    ELSE LET processed == Head(rs)
             depth == processed.context.depth
             children_actions == processed.context.children
             node_key == processed.key
             nodes1 == [k \in DOMAIN nodes \cup {node_key} |->
                           IF k = node_key THEN processed ELSE nodes[k]]
             pushed == IF should_expand(md, depth)
                       THEN [j \in 1..Len(children_actions) |->
                                [action |-> children_actions[j], depth |-> depth,
                                 parent_key |-> node_key]]
                       ELSE <<>>
         IN CollectResultsSameDepth(Tail(rs), nodes1, fr \o pushed, elog \o pushed, md)

\* walk, lines 136-158: store every result and enqueue its children.
RECURSIVE CollectResults(_, _, _, _, _)
CollectResults(rs, nodes, fr, elog, md) ==
    IF rs = <<>> THEN [all_nodes |-> nodes, frontier |-> fr, enqueue_log |-> elog]
    ELSE LET processed == Head(rs)
             depth == processed.context.depth
             children_actions == processed.context.children
             node_key == processed.key
             nodes1 == [k \in DOMAIN nodes \cup {node_key} |->
                           IF k = node_key THEN processed ELSE nodes[k]]
             pushed == IF should_expand(md, depth)
                       THEN [j \in 1..Len(children_actions) |->
                                [action |-> children_actions[j], depth |-> depth + 1,
                                 parent_key |-> node_key]]
                       ELSE <<>>
         IN CollectResults(Tail(rs), nodes1, fr \o pushed, elog \o pushed, md)

\* Mutant of AcquirePermit: the permit is given back as soon as it is taken.
AcquirePermitLeaked(p) == p

\* Semaphore::acquire takes one permit.
AcquirePermit(p) == p - 1

\* Mutant of DropPermit: the permit is forgotten, never given back.
DropPermitForgotten(p) == p

\* Dropping _permit at the end of the task gives the permit back.
DropPermit(p) == p + 1

EmptyMap == [k \in {} |-> <<>>]

\* --------------------------------------------------------------- advisory
\* The identifiers advisories carry: a forge id, a CVE number, an OSV id.
Ids == {"GHSA-1", "CVE-1", "OSV-1"}

\* struct Advisory, cut down to the fields deduplication reads. The aliases
\* are only ever tested for membership and copied, so the Vec is taken as
\* the set of its elements.
Advisories == [id : Ids, aliases : {a \in SUBSET Ids : Cardinality(a) <= MaxAliases}]

\* Mutant of Retain: the identifiers of a dropped advisory are marked seen too.
RECURSIVE RetainMarkDropped(_, _)
RetainMarkDropped(advisories, seen_ids) ==
    IF advisories = <<>> THEN <<>>
    ELSE LET adv == Head(advisories)
             marked == seen_ids \cup {adv.id} \cup adv.aliases
         IN IF adv.id \in seen_ids \/ adv.aliases \cap seen_ids # {}
            THEN RetainMarkDropped(Tail(advisories), marked)
            ELSE <<adv>> \o RetainMarkDropped(Tail(advisories), marked)

\* Mutant of Retain: the id of an advisory is not looked up, only its aliases.
RECURSIVE RetainAliasOnly(_, _)
RetainAliasOnly(advisories, seen_ids) ==
    IF advisories = <<>> THEN <<>>
    ELSE LET adv == Head(advisories) IN
         IF adv.aliases \cap seen_ids # {}
         THEN RetainAliasOnly(Tail(advisories), seen_ids)
         ELSE <<adv>> \o RetainAliasOnly(Tail(advisories),
                                         seen_ids \cup {adv.id} \cup adv.aliases)

\* Mutant of Retain: the aliases of a kept advisory are not marked seen.
RECURSIVE RetainIdsOnly(_, _)
RetainIdsOnly(advisories, seen_ids) ==
    IF advisories = <<>> THEN <<>>
    ELSE LET adv == Head(advisories) IN
         IF adv.id \in seen_ids \/ adv.aliases \cap seen_ids # {}
         THEN RetainIdsOnly(Tail(advisories), seen_ids)
         ELSE <<adv>> \o RetainIdsOnly(Tail(advisories), seen_ids \cup {adv.id})

\* Mutant of Retain: the aliases of an advisory are not looked up, only its id.
RECURSIVE RetainIdLookupOnly(_, _)
RetainIdLookupOnly(advisories, seen_ids) ==
    IF advisories = <<>> THEN <<>>
    ELSE LET adv == Head(advisories) IN
         IF adv.id \in seen_ids
         THEN RetainIdLookupOnly(Tail(advisories), seen_ids)
         ELSE <<adv>> \o RetainIdLookupOnly(Tail(advisories),
                                            seen_ids \cup {adv.id} \cup adv.aliases)

\* The retain closure of deduplicate_advisories, applied front to back.
RECURSIVE Retain(_, _)
Retain(advisories, seen_ids) ==
    IF advisories = <<>> THEN <<>>
    ELSE LET adv == Head(advisories) IN
         IF adv.id \in seen_ids
         THEN Retain(Tail(advisories), seen_ids)
         ELSE IF \E a \in adv.aliases : a \in seen_ids
         THEN Retain(Tail(advisories), seen_ids)
         ELSE <<adv>> \o Retain(Tail(advisories), seen_ids \cup {adv.id} \cup adv.aliases)

deduplicate_advisories(advisories) == Retain(advisories, {})

\* The names of the action-advisory providers.
ProviderNames == {"GHSA", "OSV", "Mirror"}

\* What a provider's query can answer: a failure, or a list of advisories;
\* Pending stands for a query that has not completed.
\* GHSA-1 and CVE-1 name each other, OSV-1 names CVE-1 as well.
Pending == [pending |-> TRUE]
Failure == [ok |-> FALSE, error |-> "connection refused"]
Success(advs) == [ok |-> TRUE, advisories |-> advs]
Answers ==
    {Failure,
     Success(<<>>),
     Success(<<[id |-> "GHSA-1", aliases |-> {"CVE-1"}]>>),
     Success(<<[id |-> "CVE-1", aliases |-> {"GHSA-1"}]>>),
     Success(<<[id |-> "OSV-1", aliases |-> {"CVE-1"}]>>),
     Success(<<[id |-> "GHSA-1", aliases |-> {}], [id |-> "OSV-1", aliases |-> {}]>>)}

\* The provider lists an AdvisoryStage can be built with: distinct providers
\* in any declared order.
ProviderLists ==
    {l \in SeqsUpTo([name : ProviderNames, answer : Answers], MaxProviders) :
        \A i, j \in 1..Len(l) : i # j => l[i].name # l[j].name}

\* Mutant of JoinAllQueries: the outputs come in the order the queries completed.
JoinAllQueriesByCompletion(providers, answers, completion) ==
    [i \in 1..Len(providers) |->
        [provider_name |-> providers[completion[i]].name, result |-> answers[completion[i]]]]

\* join_all over the provider queries: the (name, result) pairs in the order
\* of the providers, whatever the order in which the queries completed.
JoinAllQueries(providers, answers, completion) ==
    [i \in 1..Len(providers) |-> [provider_name |-> providers[i].name, result |-> answers[i]]]

\* Mutant of CollectAdvisories: the first provider failure is returned with `?`.
RECURSIVE CollectAdvisoriesBail(_, _, _)
CollectAdvisoriesBail(qresults, advisories, ctx) ==
    IF qresults = <<>> THEN [advisories |-> advisories, ctx |-> ctx, result |-> Ok]
    ELSE LET q == Head(qresults) IN
         IF q.result.ok
         THEN CollectAdvisoriesBail(Tail(qresults), advisories \o q.result.advisories, ctx)
         ELSE [advisories |-> <<>>, ctx |-> ctx, result |-> q.result.error]

\* AdvisoryStage::run, lines 33-42: extend with every success, record every failure.
RECURSIVE CollectAdvisories(_, _, _)
CollectAdvisories(qresults, advisories, ctx) ==
    IF qresults = <<>> THEN [advisories |-> advisories, ctx |-> ctx, result |-> Ok]
    ELSE LET q == Head(qresults) IN
         IF q.result.ok
         THEN CollectAdvisories(Tail(qresults), advisories \o q.result.advisories, ctx)
         ELSE CollectAdvisories(Tail(qresults), advisories,
                                record_error(ctx, "Advisory",
                                             <<q.provider_name, ": ", q.result.error>>))

\* ---------------------------------------------------------------- forge
\* The refs resolve_ref is asked about, by what classify_ref made of them.
RefActions == {[ref_type |-> "Sha", git_ref |-> "b4ffde65f46336ab88eb53be808477a3936bae11"],
               [ref_type |-> "Tag", git_ref |-> "v4"],
               [ref_type |-> "Tag", git_ref |-> "1.2.3"],
               [ref_type |-> "Unknown", git_ref |-> "main"],
               [ref_type |-> "Unknown", git_ref |-> "release"]}

\* A JSON member that is absent or not a string.
Missing == "missing"

\* What the forge can answer to a request: 404, any other failure (a
\* transport error, a non-2xx status, a body that is not JSON), or a JSON body.
NotFound == [status |-> "404"]
Failed == [status |-> "error"]
Json(body) == [status |-> "200", body |-> body]

\* The bodies of git/ref/tags/<ref> and git/ref/heads/<ref>: the object member
\* may be missing, and so may its type and its sha.
RefBodies ==
    {[ref |-> "refs/x"]}
    \cup {[ref |-> "refs/x", object |-> [type |-> t, sha |-> h]] :
             t \in {"commit", "tag", "tree", Missing}, h \in {"sha-of-ref", Missing}}

\* The bodies of git/tags/<sha>: the object nested in the tag object, a
\* commit or again a tag, with its sha.
TagBodies ==
    {[object |-> [type |-> t, sha |-> h]] :
        t \in {"commit", "tag"}, h \in {"sha-of-commit", Missing}}

RefAnswers == {NotFound, Failed} \cup {Json(b) : b \in RefBodies}
TagAnswers == {NotFound, Failed} \cup {Json(b) : b \in TagBodies}

Returned(sha) == [ok |-> TRUE, sha |-> sha]
Error(msg) == [ok |-> FALSE, error |-> msg]

\* Mutant of ReturnsImmediately: a sha ref is looked up like any other ref.
ReturnsImmediatelyNever(action) == FALSE

\* resolve_ref, lines 32-34
ReturnsImmediately(action) == action.ref_type = "Sha"

\* api_get_optional: Ok(None) on 404, Err on any other failure, Ok(Some(json)).
api_get_optional(answer) ==
    IF answer = NotFound THEN [ok |-> TRUE, some |-> FALSE]
    ELSE IF answer = Failed THEN [ok |-> FALSE, some |-> FALSE]
    ELSE [ok |-> TRUE, some |-> TRUE, json |-> answer.body]

\* api_get: as api_get_optional, with 404 an error too.
api_get(answer) ==
    LET r == api_get_optional(answer)
    IN IF r.ok /\ ~r.some THEN [ok |-> FALSE, some |-> FALSE] ELSE r

\* Mutant of TagLookupFallsBack: the branch is tried after any failed tag lookup.
TagLookupFallsBackOnError(answer) == answer = NotFound \/ answer = Failed

\* resolve_ref, lines 42-46: the branch is tried when the tag lookup gave None.
TagLookupFallsBack(answer) ==
    LET r == api_get_optional(answer) IN r.ok /\ ~r.some

\* Mutant of ExtractHead: the sha of a tag object is returned like that of a commit.
ExtractHeadNoDeref(json) ==
    IF "object" \notin DOMAIN json THEN Error("missing 'object' in ref response")
    ELSE IF json.object.type = Missing THEN Error("missing 'type' in ref object")
    ELSE IF json.object.sha = Missing THEN Error("missing 'sha' in ref object")
    ELSE IF json.object.type \in {"commit", "tag"} THEN Returned(json.object.sha)
    ELSE Error("unexpected ref object type")

\* extract_commit_sha up to the dereference: what it returns at once, or
\* "deref" when the tag object has to be fetched first.
ExtractHead(json) ==
    IF "object" \notin DOMAIN json THEN Error("missing 'object' in ref response")
    ELSE IF json.object.type = Missing THEN Error("missing 'type' in ref object")
    ELSE IF json.object.sha = Missing THEN Error("missing 'sha' in ref object")
    ELSE IF json.object.type = "commit" THEN Returned(json.object.sha)
    ELSE IF json.object.type = "tag" THEN [ok |-> TRUE, deref |-> json.object.sha]
    ELSE Error("unexpected ref object type")

\* extract_commit_sha, lines 81-93: the answer for the tag object.
ExtractTag(answer) ==
    LET r == api_get(answer)
    IN IF ~r.ok THEN Error("request failed")
       ELSE IF r.json.object.sha = Missing THEN Error("missing commit sha in annotated tag")
       ELSE Returned(r.json.object.sha)

\* RefResolveStage::run: the match on what resolve_ref returned.
RefResolveApply(ctx, ret) ==
    IF ret.ok THEN [ctx EXCEPT !.resolved_ref = ret.sha]
    ELSE [ctx EXCEPT !.errors = Append(@, [stage |-> "RefResolve", message |-> ret.error])]

ResolveOff ==
    /\ r_action = <<>>
    /\ r_requests = <<>>
    /\ r_json = <<>>
    /\ r_ret = <<>>
    /\ r_ctx = <<>>
    /\ r_pc = "off"

\* ------------------------------------------------------- dependency stage
\* Option<ScanResult>: None is the empty sequence, Some(s) the sequence <<s>>.
EcosystemLists ==
    {<<>>, <<"npm">>, <<"cargo">>, <<"cargo", "npm">>, <<"docker", "go">>}
Scans ==
    {<<>>} \cup {<<[primary_language |-> "JavaScript", ecosystems |-> e]>> : e \in EcosystemLists}

\* The members of the "dependencies" object of a package.json: a package name
\* with a version string, or with a value that is no string.
PackageNames == {"lodash", "express"}
VersionValues == {[string |-> TRUE, value |-> "^4.17.21"], [string |-> FALSE, value |-> "4"]}
DependencyEntries ==
    {l \in SeqsUpTo([name : PackageNames, version : VersionValues], Cardinality(PackageNames)) :
        \A i, j \in 1..Len(l) : i # j => l[i].name # l[j].name}

\* What the request for package.json can bring: a failure, text that is no
\* JSON, a document without "dependencies", or one with it.
PackageJsons ==
    {[json |-> FALSE], [json |-> TRUE]}
    \cup {[json |-> TRUE, dependencies |-> d] : d \in DependencyEntries}
NpmAnswers ==
    {[ok |-> FALSE, error |-> "package.json not found"]}
    \cup {[ok |-> TRUE, content |-> c] : c \in PackageJsons}

\* parse_npm_dependencies: the (name, version) pairs of "dependencies" whose
\* version is a string, in document order.
RECURSIVE StringVersions(_)
StringVersions(entries) ==
    IF entries = <<>> THEN <<>>
    ELSE LET e == Head(entries)
         IN (IF e.version.string THEN <<[name |-> e.name, version |-> e.version.value]>> ELSE <<>>)
            \o StringVersions(Tail(entries))

parse_npm_dependencies(content) ==
    IF ~content.json THEN [ok |-> FALSE, error |-> "failed to parse package.json"]
    ELSE IF "dependencies" \notin DOMAIN content THEN [ok |-> TRUE, packages |-> <<>>]
    ELSE [ok |-> TRUE, packages |-> StringVersions(content.dependencies)]

ContainsNpm(ecosystems) == \E i \in 1..Len(ecosystems) : ecosystems[i] = "npm"

\* Mutant of NeedsPackageJson: package.json is fetched whatever the scan found.
NeedsPackageJsonAlways(ecosystems) == TRUE

\* npm::fetch_npm_packages, its guard: nothing is fetched unless npm is
\* among the ecosystems.
NeedsPackageJson(ecosystems) == ContainsNpm(ecosystems)

\* npm::fetch_npm_packages: the packages of the action's package.json, or the
\* error of the fetch or of the parse; `fetched` tells whether a request went out.
fetch_npm_packages(ecosystems, answer) ==
    IF ~NeedsPackageJson(ecosystems) THEN [ok |-> TRUE, packages |-> <<>>, fetched |-> FALSE]
    ELSE IF ~answer.ok THEN [ok |-> FALSE, error |-> answer.error, fetched |-> TRUE]
    ELSE LET r == parse_npm_dependencies(answer.content)
         IN IF r.ok THEN [ok |-> TRUE, packages |-> r.packages, fetched |-> TRUE]
            ELSE [ok |-> FALSE, error |-> r.error, fetched |-> TRUE]

\* What a package provider can answer for one package.
PackageAnswers ==
    {Failure,
     Success(<<>>),
     Success(<<[id |-> "GHSA-1", aliases |-> {"CVE-1"}]>>),
     Success(<<[id |-> "CVE-1", aliases |-> {"GHSA-1"}]>>)}

\* The provider lists a DependencyStage can be built with.
PackageProviderLists ==
    {l \in SeqsUpTo(ProviderNames, MaxProviders) :
        \A i, j \in 1..Len(l) : i # j => l[i] # l[j]}

\* DependencyStage::run, lines 74-91: extend with every success, record every
\* failure as "{provider_name}: {name}: {e}".
RECURSIVE CollectPackageAdvisories(_, _, _, _)
CollectPackageAdvisories(qresults, advisories, ctx, name) ==
    IF qresults = <<>> THEN [advisories |-> advisories, ctx |-> ctx]
    ELSE LET q == Head(qresults) IN
         IF q.result.ok
         THEN CollectPackageAdvisories(Tail(qresults), advisories \o q.result.advisories, ctx, name)
         ELSE CollectPackageAdvisories(Tail(qresults), advisories,
                 [ctx EXCEPT !.errors = Append(@,
                     [stage |-> "Dependency",
                      message |-> <<q.provider_name, ": ", name, ": ", q.result.error>>])],
                 name)

\* Mutant of PushReport: a report is pushed for every package.
PushReportAlways(reports, pkg, advisories) ==
    Append(reports, [package |-> pkg.name, version |-> pkg.version,
                     ecosystem |-> "npm", advisories |-> advisories])

\* DependencyStage::run, lines 93-101
PushReport(reports, pkg, advisories) ==
    IF advisories # <<>>
    THEN Append(reports, [package |-> pkg.name, version |-> pkg.version,
                          ecosystem |-> "npm", advisories |-> advisories])
    ELSE reports

DependencyOff ==
    /\ n_providers = <<>>
    /\ n_ctx = <<>>
    /\ n_requests = <<>>
    /\ n_packages = <<>>
    /\ n_reports = <<>>
    /\ n_pc = "off"

FunctionsOff ==
    /\ f_fn = "off"
    /\ f_in = <<>>
    /\ f_out = <<>>

\* The parts of the model added for the forge client, the dependency stage
\* and the parsers, idle.
ExtrasOff == ResolveOff /\ DependencyOff /\ FunctionsOff

AdvisoryOff ==
    /\ a_providers = <<>>
    /\ a_results = <<>>
    /\ a_completion = <<>>
    /\ a_ctx = <<>>
    /\ a_fed = <<>>
    /\ a_ret = None
    /\ a_pc = "off"

DedupOff ==
    /\ d_in = <<>>
    /\ d_out = <<>>
    /\ d_twice = <<>>
    /\ d_doubled = <<>>
    /\ d_pc = "off"

PipeOff ==
    /\ p_stages = <<>>
    /\ p_ctx = <<>>
    /\ p_next = 1
    /\ p_log = <<>>
    /\ p_results = <<>>
    /\ p_last = [name |-> None]
    /\ p_pc = "off"

Init ==
    /\ PipeOff
    /\ DedupOff
    /\ AdvisoryOff
    /\ ExtrasOff
    /\ world = EmptyMap
    /\ max_depth \in {Unlimited} \cup {Some(n) : n \in 0..MaxDepthBound}
    /\ max_concurrency \in 1..MaxConcurrency
    /\ roots \in RootLists
    /\ visited = {}
    /\ semaphore = max_concurrency
    /\ frontier = [i \in 1..Len(roots) |->
                      [action |-> roots[i], depth |-> 0, parent_key |-> None]]
    /\ all_nodes = EmptyMap
    /\ root_keys = <<>>
    /\ children_order = EmptyMap
    /\ handles = <<>>
    /\ pc = "loop"
    /\ tree = <<>>
    /\ runs = [r \in Raws |-> 0]
    /\ started = {}
    /\ finished = {}
    /\ enqueue_log = <<>>
    /\ admitted = <<>>
    /\ level_finish = <<>>
    /\ results = EmptyMap

\* One pass of the while loop up to join_all: drain, filter, track, spawn.
StartLevel ==
    /\ pc = "loop"
    /\ frontier # <<>>
    /\ LET f == FilterVisited(frontier, visited, <<>>)
           t == TrackKeys(f.to_process, root_keys, children_order)
       IN /\ visited' = f.visited
          /\ frontier' = <<>>
          /\ admitted' = admitted \o [i \in 1..Len(f.to_process) |->
                                        [raw |-> f.to_process[i].key,
                                         depth |-> f.to_process[i].depth,
                                         parent |-> f.to_process[i].parent_key]]
          /\ IF f.to_process = <<>>
             THEN UNCHANGED <<root_keys, children_order, handles, pc, level_finish>>
             ELSE /\ root_keys' = t.root_keys
                  /\ children_order' = t.children_order
                  /\ handles' = [i \in 1..Len(f.to_process) |->
                                    [action |-> f.to_process[i].action,
                                     depth |-> f.to_process[i].depth,
                                     parent_key |-> f.to_process[i].parent_key,
                                     key |-> f.to_process[i].key,
                                     i |-> i - 1,
                                     status |-> "spawned"]]
                  /\ level_finish' = <<>>
                  /\ pc' = "join"
    /\ UNCHANGED <<world, max_depth, max_concurrency, roots, semaphore, all_nodes, tree,
                   runs, started, finished, enqueue_log, results, nonwalker>>

\* A spawned task gets its permit, builds its context and enters the first stage.
Acquire(i) ==
    /\ pc = "join"
    /\ i \in 1..Len(handles)
    /\ handles[i].status = "spawned"
    /\ semaphore > 0
    /\ semaphore' = AcquirePermit(semaphore)
    /\ LET h == handles[i] IN
       /\ handles' = [handles EXCEPT ![i] =
                         [key |-> h.key, status |-> "running", permit |-> TRUE,
                          stage |-> 1, ran |-> <<>>, returned |-> <<>>,
                          ctx |-> NewContext(h.action, h.depth, h.parent_key, h.i)]]
       /\ runs' = [runs EXCEPT ![h.action] = @ + 1]
       /\ started' = started \cup
                        {[raw |-> h.action, depth |-> h.depth, parent |-> h.parent_key]}
    /\ UNCHANGED <<world, max_depth, max_concurrency, roots, visited, frontier, all_nodes,
                   root_keys, children_order, pc, tree, finished, enqueue_log,
                   admitted, level_finish, results, nonwalker>>

\* The stage in progress of task i completes; run_one records an error and
\* moves to the next stage, or, after the last one, the task returns its
\* ProcessedNode and its permit is dropped.
StageStep(i) ==
    /\ pc = "join"
    /\ i \in 1..Len(handles)
    /\ handles[i].status = "running"
    /\ LET h == handles[i]
           name == Stages[h.stage]
       IN \E out \in StageRun(name, h.ctx) :
            LET ctx1 == RunOneStep(name, h.ctx, out)
                ran1 == Append(h.ran, name)
                returned1 == Append(h.returned, out.result)
                nxt == NextStage(h.stage, Len(Stages), out.result)
            IN IF nxt <= Len(Stages)
               THEN /\ handles' = [handles EXCEPT ![i] =
                                      [h EXCEPT !.stage = nxt, !.ctx = ctx1, !.ran = ran1,
                                                !.returned = returned1]]
                    /\ UNCHANGED <<semaphore, finished, level_finish, results>>
               ELSE /\ handles' = [handles EXCEPT ![i] =
                                      [h EXCEPT !.status = "finished", !.permit = FALSE,
                                                !.stage = 0, !.ctx = ctx1, !.ran = ran1,
                                                !.returned = returned1]]
                    /\ semaphore' = DropPermit(semaphore)
                    /\ finished' = finished \cup {h.key}
                    /\ level_finish' = Append(level_finish, i)
                    /\ results' = [k \in DOMAIN results \cup {h.key} |->
                                      IF k = h.key
                                      THEN [context |-> ctx1, ran |-> ran1,
                                            returned |-> returned1]
                                      ELSE results[k]]
    /\ UNCHANGED <<world, max_depth, max_concurrency, roots, visited, frontier, all_nodes,
                   root_keys, children_order, pc, tree, runs, started, enqueue_log,
                   admitted, nonwalker>>

\* join_all returns; the results are stored and their children enqueued.
JoinAll ==
    /\ pc = "join"
    /\ JoinAllReady(handles)
    /\ LET c == CollectResults(JoinAllResults(handles, level_finish),
                               all_nodes, frontier, enqueue_log, max_depth)
       IN /\ all_nodes' = c.all_nodes
          /\ frontier' = c.frontier
          /\ enqueue_log' = c.enqueue_log
    /\ handles' = <<>>
    /\ pc' = "loop"
    /\ UNCHANGED <<world, max_depth, max_concurrency, roots, visited, semaphore, root_keys,
                   children_order, tree, runs, started, finished, admitted,
                   level_finish, results, nonwalker>>

\* The frontier is empty: the loop ends and the tree is assembled.
Finish ==
    /\ pc = "loop"
    /\ frontier = <<>>
    /\ LET b == build_tree(all_nodes, root_keys, children_order)
       IN /\ tree' = b.result
          /\ all_nodes' = b.nodes
    /\ level_finish' = <<>>
    /\ pc' = "done"
    /\ UNCHANGED <<world, max_depth, max_concurrency, roots, visited, semaphore, frontier,
                   root_keys, children_order, handles, runs, started, finished,
                   enqueue_log, admitted, results, nonwalker>>

Next ==
    \/ StartLevel
    \/ \E i \in 1..Cardinality(Raws) : Acquire(i)
    \/ \E i \in 1..Cardinality(Raws) : StageStep(i)
    \/ JoinAll
    \/ Finish

Spec == Init /\ [][Next]_vars

\* The walk over a fixed action graph, under the scheduling the runtime
\* gives: a task that can take a step (a free permit to acquire, a stage in
\* progress to complete) eventually takes it, and walk goes on when it can.
InitGraph ==
    /\ PipeOff
    /\ DedupOff
    /\ AdvisoryOff
    /\ ExtrasOff
    /\ world \in Graphs
    /\ max_depth \in {Unlimited} \cup {Some(n) : n \in 0..MaxDepthBound}
    /\ max_concurrency \in 1..MaxConcurrency
    /\ roots \in GraphRoots
    /\ visited = {}
    /\ semaphore = max_concurrency
    /\ frontier = [i \in 1..Len(roots) |->
                      [action |-> roots[i], depth |-> 0, parent_key |-> None]]
    /\ all_nodes = EmptyMap
    /\ root_keys = <<>>
    /\ children_order = EmptyMap
    /\ handles = <<>>
    /\ pc = "loop"
    /\ tree = <<>>
    /\ runs = [r \in GraphRaws |-> 0]
    /\ started = {}
    /\ finished = {}
    /\ enqueue_log = <<>>
    /\ admitted = <<>>
    /\ level_finish = <<>>
    /\ results = EmptyMap

SpecGraph == InitGraph /\ [][Next]_vars /\ WF_vars(Next)

\* ------------------------------------------------- run_one on its own
InitPipe ==
    /\ DedupOff
    /\ AdvisoryOff
    /\ ExtrasOff
    /\ world = EmptyMap
    /\ max_depth = Unlimited
    /\ max_concurrency = 1
    /\ roots = <<>>
    /\ visited = {}
    /\ semaphore = 1
    /\ frontier = <<>>
    /\ all_nodes = EmptyMap
    /\ root_keys = <<>>
    /\ children_order = EmptyMap
    /\ handles = <<>>
    /\ pc = "off"
    /\ tree = <<>>
    /\ runs = [r \in Raws |-> 0]
    /\ started = {}
    /\ finished = {}
    /\ enqueue_log = <<>>
    /\ admitted = <<>>
    /\ level_finish = <<>>
    /\ results = EmptyMap
    /\ p_stages \in SeqsUpTo(StageNames, MaxStages)
    /\ p_ctx = NewContext("A", 0, None, None)
    /\ p_next = 1
    /\ p_log = <<>>
    /\ p_results = <<>>
    /\ p_last = [name |-> None]
    /\ p_pc = "run"

\* One iteration of the for loop of run_one: the next stage runs on the
\* context, its error, if any, is recorded, and the loop moves on.
PipeStep ==
    /\ p_pc = "run"
    /\ p_next <= Len(p_stages)
    /\ LET name == p_stages[p_next] IN
       \E out \in DynStageRun(p_ctx) :
          /\ p_ctx' = RunOneStep(name, p_ctx, out)
          /\ p_log' = Append(p_log, name)
          /\ p_results' = Append(p_results, out.result)
          /\ p_last' = [name |-> name, before |-> p_ctx, out |-> out]
          /\ p_next' = NextStage(p_next, Len(p_stages), out.result)
    /\ UNCHANGED <<p_stages, p_pc, nonpipe>>

\* The loop is over: run_one returns.
PipeReturn ==
    /\ p_pc = "run"
    /\ p_next > Len(p_stages)
    /\ p_pc' = "done"
    /\ UNCHANGED <<p_stages, p_ctx, p_next, p_log, p_results, p_last, nonpipe>>

NextPipe == PipeStep \/ PipeReturn

SpecPipe == InitPipe /\ [][NextPipe]_vars

\* ------------------------------- deduplicate_advisories on its own
WalkerOff ==
    /\ world = EmptyMap
    /\ max_depth = Unlimited
    /\ max_concurrency = 1
    /\ roots = <<>>
    /\ visited = {}
    /\ semaphore = 1
    /\ frontier = <<>>
    /\ all_nodes = EmptyMap
    /\ root_keys = <<>>
    /\ children_order = EmptyMap
    /\ handles = <<>>
    /\ pc = "off"
    /\ tree = <<>>
    /\ runs = [r \in Raws |-> 0]
    /\ started = {}
    /\ finished = {}
    /\ enqueue_log = <<>>
    /\ admitted = <<>>
    /\ level_finish = <<>>
    /\ results = EmptyMap

InitDedup ==
    /\ WalkerOff
    /\ PipeOff
    /\ AdvisoryOff
    /\ ExtrasOff
    /\ d_in \in SeqsUpTo(Advisories, MaxAdvisories)
    /\ d_out = <<>>
    /\ d_twice = <<>>
    /\ d_doubled = <<>>
    /\ d_pc = "first"

\* deduplicate_advisories(xs)
Dedup ==
    /\ d_pc = "first"
    /\ d_out' = deduplicate_advisories(d_in)
    /\ d_pc' = "again"
    /\ UNCHANGED <<d_in, d_twice, d_doubled, nondedup>>

\* deduplicate_advisories applied to its own result
DedupAgain ==
    /\ d_pc = "again"
    /\ d_twice' = deduplicate_advisories(d_out)
    /\ d_pc' = "doubled"
    /\ UNCHANGED <<d_in, d_out, d_doubled, nondedup>>

\* deduplicate_advisories(xs ++ xs)
DedupDoubled ==
    /\ d_pc = "doubled"
    /\ d_doubled' = deduplicate_advisories(d_in \o d_in)
    /\ d_pc' = "done"
    /\ UNCHANGED <<d_in, d_out, d_twice, nondedup>>

NextDedup == Dedup \/ DedupAgain \/ DedupDoubled

SpecDedup == InitDedup /\ [][NextDedup]_vars

\* --------------------------------------- AdvisoryStage::run on its own
InitAdvisory ==
    /\ WalkerOff
    /\ PipeOff
    /\ DedupOff
    /\ ExtrasOff
    /\ a_providers \in ProviderLists
    /\ a_results = [i \in 1..Len(a_providers) |-> Pending]
    /\ a_completion = <<>>
    /\ a_ctx = NewContext("A", 0, None, None)
    /\ a_fed = <<>>
    /\ a_ret = None
    /\ a_pc = "query"

\* The query of provider i completes with its answer.
QueryDone(i) ==
    /\ a_pc = "query"
    /\ i \in 1..Len(a_providers)
    /\ a_results[i] = Pending
    /\ a_results' = [a_results EXCEPT ![i] = a_providers[i].answer]
    /\ a_completion' = Append(a_completion, i)
    /\ UNCHANGED <<a_providers, a_ctx, a_fed, a_ret, a_pc, nonadvisory>>

\* join_all returns; the successes are concatenated, the failures recorded,
\* the concatenation is deduplicated into ctx.advisories and run returns.
AdvisoryCollect ==
    /\ a_pc = "query"
    /\ \A i \in 1..Len(a_providers) : a_results[i] # Pending
    /\ LET c == CollectAdvisories(JoinAllQueries(a_providers, a_results, a_completion),
                                  <<>>, a_ctx)
       IN IF c.result = Ok
          THEN /\ a_fed' = c.advisories
               /\ a_ctx' = [c.ctx EXCEPT !.advisories = deduplicate_advisories(c.advisories)]
               /\ a_ret' = Ok
          ELSE /\ a_ret' = c.result
               /\ a_ctx' = c.ctx
               /\ UNCHANGED a_fed
    /\ a_pc' = "done"
    /\ UNCHANGED <<a_providers, a_results, a_completion, nonadvisory>>

NextAdvisory ==
    \/ \E i \in 1..Cardinality(ProviderNames) : QueryDone(i)
    \/ AdvisoryCollect

SpecAdvisory == InitAdvisory /\ [][NextAdvisory]_vars

\* ------------------------------------ RefResolveStage::run on its own
InitResolve ==
    /\ WalkerOff
    /\ PipeOff
    /\ DedupOff
    /\ AdvisoryOff
    /\ DependencyOff
    /\ FunctionsOff
    /\ r_action \in RefActions
    /\ r_requests = <<>>
    /\ r_json = <<>>
    /\ r_ret = <<>>
    /\ r_ctx = NewContext(r_action.git_ref, 0, None, None)
    /\ r_pc = "start"

\* resolve_ref returns `ret` and the stage stores the sha or records the error.
ResolveReturns(ret) ==
    /\ r_ret' = ret
    /\ r_ctx' = RefResolveApply(r_ctx, ret)
    /\ r_pc' = "done"

\* What follows a ref object: a return, or the request for the tag object.
ResolveExtract(json) ==
    LET e == ExtractHead(json)
    IN IF "deref" \in DOMAIN e
       THEN /\ r_json' = json
            /\ r_pc' = "deref"
            /\ UNCHANGED <<r_ret, r_ctx>>
       ELSE /\ ResolveReturns(e)
            /\ UNCHANGED r_json

\* resolve_ref is entered: a sha ref is returned as it is.
ResolveStart ==
    /\ r_pc = "start"
    /\ IF ReturnsImmediately(r_action)
       THEN ResolveReturns(Returned(r_action.git_ref))
       ELSE /\ r_pc' = "tag"
            /\ UNCHANGED <<r_ret, r_ctx>>
    /\ UNCHANGED <<r_action, r_requests, r_json, nonresolve>>

\* GET git/ref/tags/<ref>
TagLookup ==
    /\ r_pc = "tag"
    /\ \E answer \in RefAnswers :
          /\ r_requests' = Append(r_requests, [url |-> "git/ref/tags", answer |-> answer])
          /\ IF TagLookupFallsBack(answer)
             THEN /\ r_pc' = "branch"
                  /\ UNCHANGED <<r_json, r_ret, r_ctx>>
             ELSE IF ~api_get_optional(answer).ok
             THEN ResolveReturns(Error("request failed")) /\ UNCHANGED r_json
             ELSE ResolveExtract(api_get_optional(answer).json)
    /\ UNCHANGED <<r_action, nonresolve>>

\* GET git/ref/heads/<ref>
BranchLookup ==
    /\ r_pc = "branch"
    /\ \E answer \in RefAnswers :
          /\ r_requests' = Append(r_requests, [url |-> "git/ref/heads", answer |-> answer])
          /\ IF ~api_get(answer).ok
             THEN ResolveReturns(Error("ref not found as tag or branch")) /\ UNCHANGED r_json
             ELSE ResolveExtract(api_get(answer).json)
    /\ UNCHANGED <<r_action, nonresolve>>

\* GET git/tags/<sha> for an annotated tag
TagDeref ==
    /\ r_pc = "deref"
    /\ \E answer \in TagAnswers :
          /\ r_requests' = Append(r_requests, [url |-> "git/tags", answer |-> answer])
          /\ ResolveReturns(ExtractTag(answer))
    /\ UNCHANGED <<r_action, r_json, nonresolve>>

NextResolve == ResolveStart \/ TagLookup \/ BranchLookup \/ TagDeref

SpecResolve == InitResolve /\ [][NextResolve]_vars

\* resolve_ref when every request it awaits is answered: the step that is
\* enabled is eventually taken.
SpecResolveFair == SpecResolve /\ WF_vars(NextResolve)

\* ---------------------------------------------------------------- strings
\* A string is the sequence of its characters; "U+00E9" stands for one
\* character outside ASCII, two bytes long in UTF-8.
AsciiDigits == {"0", "1", "2", "3", "4", "5", "6", "7", "8", "9"}
AsciiHexDigits ==
    AsciiDigits \cup {"a", "b", "c", "d", "e", "f", "A", "B", "C", "D", "E", "F"}
ByteWidth(c) == IF c = "U+00E9" THEN 2 ELSE 1

\* str::len: the length in bytes
RECURSIVE len(_)
len(s) == IF s = <<>> THEN 0 ELSE ByteWidth(Head(s)) + len(Tail(s))

Repeat(c, n) == [i \in 1..n |-> c]

\* str::starts_with
starts_with(s, prefix) ==
    /\ Len(s) >= Len(prefix)
    /\ SubSeq(s, 1, Len(prefix)) = prefix

\* The position of the first c in s, 0 when there is none.
Find(s, c) ==
    IF \E i \in 1..Len(s) : s[i] = c
    THEN CHOOSE i \in 1..Len(s) : s[i] = c /\ \A j \in 1..(i - 1) : s[j] # c
    ELSE 0

\* str::split: the segments between the separators, empty ones included.
RECURSIVE split(_, _)
split(s, c) ==
    LET i == Find(s, c)
    IN IF i = 0 THEN <<s>>
       ELSE <<SubSeq(s, 1, i - 1)>> \o split(SubSeq(s, i + 1, Len(s)), c)

\* [&str]::join
RECURSIVE join(_, _)
join(segments, c) ==
    IF segments = <<>> THEN <<>>
    ELSE IF Len(segments) = 1 THEN segments[1]
    ELSE segments[1] \o <<c>> \o join(Tail(segments), c)

\* The characters the references of the model are written with, in the
\* order of their codes.
CodeOrder ==
    <<".", "/", "1", "2", ":", "@", "a", "b", "c", "d", "e", "k", "o", "r", "v">>
Code(c) == CHOOSE i \in 1..Len(CodeOrder) : CodeOrder[i] = c

\* Ord for str: byte-wise lexicographic.
RECURSIVE StrLess(_, _)
StrLess(s, t) ==
    IF t = <<>> THEN FALSE
    ELSE IF s = <<>> THEN TRUE
    ELSE IF Head(s) # Head(t) THEN Code(Head(s)) < Code(Head(t))
    ELSE StrLess(Tail(s), Tail(t))

\* Ord for Option<String>: None (<<>>) before every Some(s) (<<s>>).
OptStrLess(a, b) ==
    IF b = <<>> THEN FALSE
    ELSE IF a = <<>> THEN TRUE
    ELSE StrLess(a[1], b[1])

\* ------------------------------------------------------------- action_ref
ShaLen == 40

\* Mutant of StripPrefixV: no prefix is stripped.
StripPrefixNothing(git_ref) == git_ref

\* git_ref.strip_prefix('v').unwrap_or(git_ref)
StripPrefixV(git_ref) ==
    IF starts_with(git_ref, <<"v">>) THEN Tail(git_ref) ELSE git_ref

\* classify_ref
classify_ref(git_ref) ==
    IF len(git_ref) = ShaLen /\ \A i \in 1..Len(git_ref) : git_ref[i] \in AsciiHexDigits
    THEN "Sha"
    ELSE LET without_v == StripPrefixV(git_ref)
         IN IF without_v # <<>> /\ without_v[1] \in AsciiDigits THEN "Tag" ELSE "Unknown"

\* ActionRef::from_str; path is an Option<String>.
from_str(raw) ==
    LET at == Find(raw, "@")
        name_part == SubSeq(raw, 1, at - 1)
        git_ref == SubSeq(raw, at + 1, Len(raw))
        segments == split(name_part, "/")
    IN IF at = 0 THEN [ok |-> FALSE, error |-> "missing '@' in action reference"]
       ELSE IF Len(segments) < 2
       THEN [ok |-> FALSE, error |-> "expected owner/repo in action reference"]
       ELSE [ok |-> TRUE,
             action |-> [raw |-> raw,
                         owner |-> segments[1],
                         repo |-> segments[2],
                         path |-> IF Len(segments) > 2
                                  THEN <<join(SubSeq(segments, 3, Len(segments)), "/")>>
                                  ELSE <<>>,
                         git_ref |-> git_ref,
                         ref_type |-> classify_ref(git_ref)]]

\* Ord for ActionRef: owner, repo, path, git_ref.
ActionRefLess(a, b) ==
    IF a.owner # b.owner THEN StrLess(a.owner, b.owner)
    ELSE IF a.repo # b.repo THEN StrLess(a.repo, b.repo)
    ELSE IF a.path # b.path THEN OptStrLess(a.path, b.path)
    ELSE StrLess(a.git_ref, b.git_ref)

\* Mutant of ActionRefEq: the path is not compared.
ActionRefEqNoPath(a, b) ==
    /\ a.owner = b.owner
    /\ a.repo = b.repo
    /\ a.git_ref = b.git_ref

\* PartialEq for ActionRef: raw and ref_type are not compared.
ActionRefEq(a, b) ==
    /\ a.owner = b.owner
    /\ a.repo = b.repo
    /\ a.path = b.path
    /\ a.git_ref = b.git_ref

\* The git refs classify_ref is applied to: a head, filled up with one
\* character to lengths around ShaLen.
GitRefHeads ==
    {<<>>, <<"v">>, <<"1">>, <<"v", "1">>, <<"v", "v", "1">>, <<"V", "1">>,
     <<"a">>, <<"m">>, <<"F">>, <<"-", "1">>, <<"U+00E9">>}
GitRefFillers == {"0", "f", "F", "g", "U+00E9"}
GitRefLengths == {0, 1, 2, 3, ShaLen - 1, ShaLen, ShaLen + 1}
GitRefs ==
    {h \o Repeat(c, n - Len(h)) :
        <<h, c, n>> \in {x \in GitRefHeads \X GitRefFillers \X GitRefLengths : x[3] >= Len(x[1])}}

\* The strings from_str is applied to: every string of a few characters.
RawAlphabet == {"a", "/", "@", "v", "1"}
RawStrings == SeqsUpTo(RawAlphabet, MaxRawLen)

\* The pairs of strings that are parsed and compared: every two strings
\* over a letter and the two separators.
PairAlphabet == {"a", "/", "@"}
RawPairs == SeqsUpTo(PairAlphabet, MaxRawLen) \X SeqsUpTo(PairAlphabet, MaxRawLen)

\* --------------------------------------------------------------- workflow
\* The `uses:` values of the documents: two actions, a reusable workflow
\* under a path, a local action and a docker image (both written with a
\* version, so that only their prefix tells them from an action), and a
\* string without '@'.
UsesAB == <<"a", "/", "b", "@", "v", "1">>
UsesBA == <<"b", "/", "a", "@", "v", "2">>
UsesABC == <<"a", "/", "b", "/", "c", "@", "v", "1">>
UsesLocal == <<".", "/", "a", "@", "v", "1">>
UsesDocker == <<"d", "o", "c", "k", "e", "r", ":", "/", "/", "a", "@", "1">>
UsesBad == <<"a", "b">>
UsesStrings == {UsesAB, UsesBA, UsesABC, UsesLocal, UsesDocker, UsesBad}

\* struct Step: uses is an Option<String>.
Steps == {[uses |-> <<>>]} \cup {[uses |-> <<u>>] : u \in UsesStrings}

\* The values under `jobs`: mappings with an optional job-level uses and
\* optional steps, a mapping whose steps are no sequence, and a scalar.
JobValues ==
    {[shape |-> "mapping", uses |-> <<>>,
      steps |-> <<<<[uses |-> <<UsesAB>>], [uses |-> <<UsesLocal>>], [uses |-> <<UsesDocker>>]>>>>],
     [shape |-> "mapping", uses |-> <<UsesABC>>, steps |-> <<>>],
     [shape |-> "mapping", uses |-> <<>>,
      steps |-> <<<<[uses |-> <<UsesBA>>], [uses |-> <<>>], [uses |-> <<UsesAB>>]>>>>],
     [shape |-> "mapping", uses |-> <<>>,
      steps |-> <<<<[uses |-> <<UsesBad>>], [uses |-> <<UsesAB>>]>>>>],
     [shape |-> "mapping", uses |-> <<>>, steps |-> <<>>],
     [shape |-> "steps_not_sequence", uses |-> <<UsesBA>>, steps |-> <<>>],
     [shape |-> "scalar", uses |-> <<>>, steps |-> <<>>]}

\* The workflow documents: text that is no YAML, YAML whose root is no
\* mapping, YAML whose `jobs` is no mapping, and workflows of a few jobs
\* (written in the order of the document; their names are their positions).
WorkflowDocs ==
    {[kind |-> k, jobs |-> <<>>] : k \in {"syntax_error", "root_not_mapping", "jobs_not_mapping"}}
    \cup {[kind |-> "workflow", jobs |-> j] : j \in SeqsUpTo(JobValues, MaxJobs)}

\* The orders in which a HashMap of n entries can be iterated.
Orders(n) == {o \in [1..n -> 1..n] : \A i, j \in 1..n : i # j => o[i] # o[j]}

\* Workflow::from_str (serde_yaml::from_str)
WorkflowFromStr(doc) == doc.kind = "workflow"

\* Mutant of JobTryFrom: a job whose steps are no sequence is read without them.
JobTryFromLenient(value) == value.shape \in {"mapping", "steps_not_sequence"}

\* Job::try_from (serde_yaml::from_value)
JobTryFrom(value) == value.shape = "mapping"

\* The uses of the steps that have one, in step order.
RECURSIVE StepUses(_)
StepUses(steps) ==
    IF steps = <<>> THEN <<>> ELSE Head(steps).uses \o StepUses(Tail(steps))

\* Job::uses_strings: the job-level uses, then the uses of the steps.
JobUsesStrings(job) ==
    job.uses \o (IF job.steps = <<>> THEN <<>> ELSE StepUses(job.steps[1]))

\* Workflow::uses_strings: the jobs in the order of the map's iteration,
\* a job that fails to deserialize skipped.
RECURSIVE WorkflowUsesStrings(_, _)
WorkflowUsesStrings(jobs, order) ==
    IF order = <<>> THEN <<>>
    ELSE (IF JobTryFrom(jobs[Head(order)]) THEN JobUsesStrings(jobs[Head(order)]) ELSE <<>>)
         \o WorkflowUsesStrings(jobs, Tail(order))

\* UsesRef::from_str
UsesRefFromStr(u) ==
    IF starts_with(u, <<".", "/">>) THEN [ok |-> TRUE, kind |-> "Local", raw |-> u]
    ELSE IF starts_with(u, <<"d", "o", "c", "k", "e", "r", ":", "/", "/">>)
    THEN [ok |-> TRUE, kind |-> "Docker", raw |-> u]
    ELSE LET r == from_str(u)
         IN IF r.ok THEN [ok |-> TRUE, kind |-> "ThirdParty", action |-> r.action]
            ELSE [ok |-> FALSE, kind |-> "Error"]

\* classify_uses: the strings that parse, in order.
RECURSIVE classify_uses(_)
classify_uses(raw) ==
    IF raw = <<>> THEN <<>>
    ELSE (IF UsesRefFromStr(Head(raw)).ok THEN <<UsesRefFromStr(Head(raw))>> ELSE <<>>)
         \o classify_uses(Tail(raw))

\* filter_map(UsesRef::into_third_party)
RECURSIVE into_third_party(_)
into_third_party(refs) ==
    IF refs = <<>> THEN <<>>
    ELSE (IF Head(refs).kind = "ThirdParty" THEN <<Head(refs).action>> ELSE <<>>)
         \o into_third_party(Tail(refs))

\* parse_workflow: `uses` is what Workflow::uses_strings handed to
\* classify_uses, `refs` what is returned.
parse_workflow(doc, order) ==
    IF ~WorkflowFromStr(doc) THEN [ok |-> FALSE, error |-> "yaml"]
    ELSE LET uses == WorkflowUsesStrings(doc.jobs, order)
         IN [ok |-> TRUE, uses |-> uses, refs |-> classify_uses(uses)]

\* The action.yml documents: text that is no YAML, a document without
\* `runs`, and documents whose `runs` has a `using` (or lacks it) and
\* optional steps.
Missing_using == "(missing)"
ActionDocs ==
    {[kind |-> "syntax_error", runs |-> <<>>], [kind |-> "action", runs |-> <<>>]}
    \cup {[kind |-> "action", runs |-> <<[using |-> u, steps |-> st]>>] :
             u \in {"composite", "node20", Missing_using},
             st \in {<<>>} \cup {<<l>> : l \in SeqsUpTo(Steps, MaxSteps)}}

\* ActionYaml::from_str: `using` is a String without a default.
ActionYamlFromStr(doc) ==
    /\ doc.kind = "action"
    /\ doc.runs # <<>> => doc.runs[1].using # Missing_using

\* Mutant of into_composite_steps: the steps of any action that has runs.
into_composite_steps_any(doc) ==
    IF doc.runs = <<>> THEN <<>>
    ELSE <<IF doc.runs[1].steps = <<>> THEN <<>> ELSE doc.runs[1].steps[1]>>

\* ActionYaml::into_composite_steps: an Option<Vec<Step>>
into_composite_steps(doc) ==
    IF doc.runs = <<>> THEN <<>>
    ELSE IF doc.runs[1].using = "composite"
    THEN <<IF doc.runs[1].steps = <<>> THEN <<>> ELSE doc.runs[1].steps[1]>>
    ELSE <<>>

\* parse_composite_action: Err, Ok(None) or Ok(Some(children))
parse_composite_action(doc) ==
    IF ~ActionYamlFromStr(doc) THEN [ok |-> FALSE, some |-> FALSE]
    ELSE LET steps == into_composite_steps(doc)
         IN IF steps = <<>> THEN [ok |-> TRUE, some |-> FALSE]
            ELSE [ok |-> TRUE, some |-> TRUE,
                  children |-> into_third_party(classify_uses(StepUses(steps[1])))]

\* Mutant of is_third_party: nothing is left out.
is_third_party_always(uses) == TRUE

\* is_third_party
is_third_party(uses) ==
    /\ ~starts_with(uses, <<".", "/">>)
    /\ ~starts_with(uses, <<"d", "o", "c", "k", "e", "r", ":", "/", "/">>)

\* BTreeSet::insert: the sorted sequence of the set with x added; an
\* element equal to x keeps its place.
RECURSIVE BTreeInsert(_, _)
BTreeInsert(sorted, x) ==
    IF sorted = <<>> THEN <<x>>
    ELSE IF ActionRefEq(Head(sorted), x) THEN sorted
    ELSE IF ActionRefLess(x, Head(sorted)) THEN <<x>> \o sorted
    ELSE <<Head(sorted)>> \o BTreeInsert(Tail(sorted), x)

\* parse_actions, lines 150-160: filter, filter_map and collect.
RECURSIVE CollectUnique(_, _)
CollectUnique(uses_refs, unique) ==
    IF uses_refs = <<>> THEN unique
    ELSE LET u == Head(uses_refs)
         IN IF is_third_party(u) /\ from_str(u).ok
            THEN CollectUnique(Tail(uses_refs), BTreeInsert(unique, from_str(u).action))
            ELSE CollectUnique(Tail(uses_refs), unique)

\* parse_actions
parse_actions(doc, order) ==
    IF ~WorkflowFromStr(doc) THEN [ok |-> FALSE, error |-> "yaml"]
    ELSE [ok |-> TRUE,
          roots |-> CollectUnique(WorkflowUsesStrings(doc.jobs, order), <<>>)]

\* ------------------------------------------------------------------- ghsa
\* GhsaVulnerability.vulnerable_version_range: an Option<String>
RangeOptions == {<<>>, <<">= 6.0.0, < 8.3.1">>, <<"< 2.0.0">>}

\* GhsaAdvisoryResponse, cut down to ghsa_id and vulnerabilities.
GhsaRecords ==
    {[ghsa_id |-> <<"GHSA-1">>, vulnerabilities |-> v] : v \in SeqsUpTo(RangeOptions, MaxVulnerabilities)}
    \cup {[ghsa_id |-> <<>>, vulnerabilities |-> <<>>]}

\* What the advisory API can answer: JSON that is no array, or an array of records.
GhsaJsons ==
    {[array |-> FALSE, records |-> <<>>]}
    \cup {[array |-> TRUE, records |-> r] : r \in SeqsUpTo(GhsaRecords, MaxRecords)}

\* Mutant of find_map: the range of the first entry, present or not.
first_entry(vulnerabilities) ==
    IF vulnerabilities = <<>> THEN <<>> ELSE vulnerabilities[1]

\* vulnerabilities.into_iter().find_map(|v| v.vulnerable_version_range)
RECURSIVE find_map(_)
find_map(vulnerabilities) ==
    IF vulnerabilities = <<>> THEN <<>>
    ELSE IF Head(vulnerabilities) # <<>> THEN Head(vulnerabilities)
    ELSE find_map(Tail(vulnerabilities))

\* parse_advisories
parse_advisories(json) ==
    IF ~json.array THEN [ok |-> FALSE, advisories |-> <<>>]
    ELSE [ok |-> TRUE,
          advisories |->
              [i \in 1..Len(json.records) |->
                  [id |-> IF json.records[i].ghsa_id = <<>> THEN "unknown"
                          ELSE json.records[i].ghsa_id[1],
                   aliases |-> {},
                   affected_range |-> find_map(json.records[i].vulnerabilities),
                   source |-> "GHSA"]]]

\* -------------------------------------------------------------------- osv
\* struct OsvEvent: three Option<String>; the text of a version is kept
\* whole, as one piece of the formatted string.
OsvVersions == {"0", "1.0"}
OsvOptions == {<<>>} \cup {<<v>> : v \in OsvVersions}
OsvEvents == [introduced : OsvOptions, fixed : OsvOptions, last_affected : OsvOptions]

\* Mutant of IntroducedPart: an introduced "0" is written like any other.
IntroducedPartAlways(event) ==
    IF event.introduced # <<>> THEN <<<<">= ", event.introduced[1]>>>> ELSE <<>>

\* format_range_events, lines 165-169: the part pushed for `introduced`
IntroducedPart(event) ==
    IF event.introduced # <<>> /\ event.introduced[1] # "0"
    THEN <<<<">= ", event.introduced[1]>>>>
    ELSE <<>>

\* format_range_events, lines 164-176: the parts pushed in the loop
RECURSIVE RangeParts(_)
RangeParts(events) ==
    IF events = <<>> THEN <<>>
    ELSE LET event == Head(events)
         IN IntroducedPart(event)
            \o (IF event.fixed # <<>> THEN <<<<"< ", event.fixed[1]>>>> ELSE <<>>)
            \o (IF event.last_affected # <<>> THEN <<<<"<= ", event.last_affected[1]>>>> ELSE <<>>)
            \o RangeParts(Tail(events))

\* format_range_events: the pieces of the returned string in order.
format_range_events(events) == join(RangeParts(events), ", ")

\* --------------------------------------------------------- scan selection
\* str::trim, for the blank as the only white space
RECURSIVE trim(_)
trim(s) ==
    IF s = <<>> THEN s
    ELSE IF Head(s) = " " THEN trim(Tail(s))
    ELSE IF s[Len(s)] = " " THEN trim(SubSeq(s, 1, Len(s) - 1))
    ELSE s

\* str::parse::<usize>: an optional '+' and decimal digits, at least one.
DigitValue(c) == CHOOSE n \in 0..9 : <<"0", "1", "2", "3", "4", "5", "6", "7", "8", "9">>[n + 1] = c
RECURSIVE DecimalValue(_, _)
DecimalValue(digits, acc) ==
    IF digits = <<>> THEN acc
    ELSE DecimalValue(Tail(digits), acc * 10 + DigitValue(Head(digits)))
parse_usize(s) ==
    LET digits == IF s # <<>> /\ Head(s) = "+" THEN Tail(s) ELSE s
    IN IF digits = <<>> \/ \E i \in 1..Len(digits) : digits[i] \notin AsciiDigits
       THEN [ok |-> FALSE, value |-> 0]
       ELSE [ok |-> TRUE, value |-> DecimalValue(digits, 0)]

\* str::eq_ignore_ascii_case against a lower-case word given with its
\* upper-case form
EqIgnoreAsciiCase(s, lower, upper) ==
    /\ Len(s) = Len(lower)
    /\ \A i \in 1..Len(s) : s[i] = lower[i] \/ s[i] = upper[i]

\* Mutant of RangeIsInverted: no range counts as inverted.
RangeIsInvertedNever(start, end) == FALSE

\* ScanSelection::from_str, line 99
RangeIsInverted(start, end) == start > end

\* ScanSelection::from_str, lines 82-114: one part of the spec added to the
\* indices, or the error it raises.
PartIndices(part) ==
    LET dash == Find(part, "-")
        start == parse_usize(trim(SubSeq(part, 1, dash - 1)))
        end == parse_usize(trim(SubSeq(part, dash + 1, Len(part))))
        idx == parse_usize(part)
    IN IF dash # 0
       THEN IF ~start.ok THEN [ok |-> FALSE, error |-> "invalid range start"]
            ELSE IF ~end.ok THEN [ok |-> FALSE, error |-> "invalid range end"]
            ELSE IF start.value = 0 \/ end.value = 0
            THEN [ok |-> FALSE, error |-> "scan indices are 1-based; got 0"]
            ELSE IF RangeIsInverted(start.value, end.value)
            THEN [ok |-> FALSE, error |-> "invalid range (start > end)"]
            ELSE [ok |-> TRUE, indices |-> start.value..end.value]
       ELSE IF ~idx.ok THEN [ok |-> FALSE, error |-> "invalid index"]
            ELSE IF idx.value = 0 THEN [ok |-> FALSE, error |-> "scan indices are 1-based; got 0"]
            ELSE [ok |-> TRUE, indices |-> {idx.value}]

\* ScanSelection::from_str, the loop over the parts: the BTreeSet at its
\* end, or the first error.
RECURSIVE CollectIndices(_, _)
CollectIndices(parts, indices) ==
    IF parts = <<>> THEN [ok |-> TRUE, indices |-> indices]
    ELSE LET part == trim(Head(parts))
         IN IF part = <<>> THEN CollectIndices(Tail(parts), indices)
            ELSE IF ~PartIndices(part).ok THEN PartIndices(part)
            ELSE CollectIndices(Tail(parts), indices \cup PartIndices(part).indices)

\* BTreeSet::into_iter().collect(): the elements in ascending order.
Ascending(set) ==
    [k \in 1..Cardinality(set) |-> CHOOSE x \in set : Cardinality({y \in set : y < x}) = k - 1]

\* ScanSelection::from_str
ScanSelectionFromStr(text) ==
    LET s == trim(text)
        collected == CollectIndices(split(s, ","), {})
    IN IF EqIgnoreAsciiCase(s, <<"a", "l", "l">>, <<"A", "L", "L">>)
       THEN [ok |-> TRUE, kind |-> "All", indices |-> <<>>]
       ELSE IF EqIgnoreAsciiCase(s, <<"n", "o", "n", "e">>, <<"N", "O", "N", "E">>)
       THEN [ok |-> TRUE, kind |-> "None", indices |-> <<>>]
       ELSE IF ~collected.ok THEN [ok |-> FALSE, kind |-> "Error", indices |-> <<>>]
       ELSE IF collected.indices = {} THEN [ok |-> TRUE, kind |-> "None", indices |-> <<>>]
       ELSE [ok |-> TRUE, kind |-> "Indices", indices |-> Ascending(collected.indices)]

\* ScanSelection::should_scan
should_scan(selection, zero_index) ==
    IF selection.kind = "None" THEN FALSE
    ELSE IF selection.kind = "All" THEN TRUE
    ELSE \E i \in 1..Len(selection.indices) : selection.indices[i] = zero_index + 1

\* The selection specs: the items N and N-M over a few numbers (0 and a
\* number of two digits among them), comma-separated, and some written out:
\* the empty spec, blanks, all and none in both cases, and broken ones.
SelectionNumbers == {0, 1, 2, 3, 12}
SelectionItems ==
    {<<n>> : n \in SelectionNumbers} \cup (SelectionNumbers \X SelectionNumbers)
ToDigits(n) ==
    LET digit(d) == <<"0", "1", "2", "3", "4", "5", "6", "7", "8", "9">>[d + 1]
    IN IF n < 10 THEN <<digit(n)>> ELSE <<digit(n \div 10), digit(n % 10)>>
ItemText(item) ==
    IF Len(item) = 1 THEN ToDigits(item[1])
    ELSE ToDigits(item[1]) \o <<"-">> \o ToDigits(item[2])
ItemsText(items) == join([i \in 1..Len(items) |-> ItemText(items[i])], ",")
WrittenSpecs ==
    {<<>>, <<" ">>, <<",">>, <<"a", "l", "l">>, <<"A", "L", "L">>, <<" ", "a", "l", "l", " ">>,
     <<"n", "o", "n", "e">>, <<"1", "-">>, <<"-", "1">>, <<"x">>, <<"1", "-", "2", "-", "3">>,
     <<" ", "1", " ", "-", " ", "2", " ", ",", " ", "+", "3">>}
SelectionSpecs ==
    {[text |-> ItemsText(items), items |-> items] :
        items \in SeqsUpTo(SelectionItems, MaxItems) \ {<<>>}}
    \cup {[text |-> t, items |-> <<>>] : t \in WrittenSpecs}

\* ------------------------------------ DependencyStage::run on its own
InitDependency ==
    /\ WalkerOff
    /\ PipeOff
    /\ DedupOff
    /\ AdvisoryOff
    /\ ResolveOff
    /\ FunctionsOff
    /\ n_providers \in PackageProviderLists
    /\ \E scan \in Scans :
          n_ctx = [NewContext("actions/checkout@v4", 0, None, Some(0)) EXCEPT !.scan = scan]
    /\ n_requests = <<>>
    /\ n_packages = <<>>
    /\ n_reports = <<>>
    /\ n_pc = "fetch"

\* run, lines 40-61: the ecosystems of the scan, the packages of package.json;
\* a failure is recorded and ends the stage, and so does an empty package list.
DependencyFetch ==
    /\ n_pc = "fetch"
    /\ \E answer \in NpmAnswers :
          LET ecosystems == IF n_ctx.scan = <<>> THEN <<>> ELSE n_ctx.scan[1].ecosystems
              r == fetch_npm_packages(ecosystems, answer)
          IN /\ n_requests' = IF r.fetched
                               THEN Append(n_requests, [url |-> "package.json", answer |-> answer])
                               ELSE n_requests
             /\ IF ~r.ok
                THEN /\ n_ctx' = [n_ctx EXCEPT !.errors =
                                     Append(@, [stage |-> "Dependency", message |-> r.error])]
                     /\ n_pc' = "done"
                     /\ UNCHANGED n_packages
                ELSE IF r.packages = <<>>
                THEN /\ n_pc' = "done"
                     /\ UNCHANGED <<n_ctx, n_packages>>
                ELSE /\ n_packages' = r.packages
                     /\ n_pc' = "query"
                     /\ UNCHANGED n_ctx
    /\ UNCHANGED <<n_providers, n_reports, nondependency>>

\* run, lines 65-102: one turn of the loop over the packages, the providers
\* queried through join_all; after the last package, ctx.dependencies = reports.
DependencyQuery ==
    /\ n_pc = "query"
    /\ \E answers \in [1..Len(n_providers) -> PackageAnswers] :
          LET pkg == Head(n_packages)
              joined == [i \in 1..Len(n_providers) |->
                           [provider_name |-> n_providers[i], result |-> answers[i]]]
              collected == CollectPackageAdvisories(joined, <<>>, n_ctx, pkg.name)
              advisories == deduplicate_advisories(collected.advisories)
              reports == PushReport(n_reports, pkg, advisories)
          IN /\ n_requests' = n_requests \o
                    [i \in 1..Len(n_providers) |->
                        [url |-> "query", provider |-> n_providers[i], package |-> pkg.name,
                         ecosystem |-> "npm", answer |-> answers[i]]]
             /\ n_reports' = reports
             /\ n_packages' = Tail(n_packages)
             /\ IF Tail(n_packages) = <<>>
                THEN /\ n_ctx' = [collected.ctx EXCEPT !.dependencies = reports]
                     /\ n_pc' = "done"
                ELSE /\ n_ctx' = collected.ctx
                     /\ UNCHANGED n_pc
    /\ UNCHANGED <<n_providers, nondependency>>

NextDependency == DependencyFetch \/ DependencyQuery

SpecDependency == InitDependency /\ [][NextDependency]_vars

\* ------------------------------------ the parsers, each applied once
InitFunctions ==
    /\ WalkerOff
    /\ PipeOff
    /\ DedupOff
    /\ AdvisoryOff
    /\ ResolveOff
    /\ DependencyOff
    /\ \/ f_fn = "classify_ref" /\ f_in \in GitRefs
       \/ f_fn = "from_str" /\ f_in \in RawStrings
       \/ f_fn = "parse_workflow" /\ f_in \in WorkflowDocs
       \/ f_fn = "parse_actions" /\ f_in \in WorkflowDocs
       \/ f_fn = "parse_composite_action" /\ f_in \in ActionDocs
       \/ f_fn = "parse_advisories" /\ f_in \in GhsaJsons
       \/ f_fn = "format_range_events" /\ f_in \in SeqsUpTo(OsvEvents, MaxEvents)
       \/ f_fn = "ScanSelection::from_str" /\ f_in \in SelectionSpecs
       \/ f_fn = "ActionRef::eq" /\ f_in \in RawPairs
    /\ f_out = <<>>

ClassifyRef ==
    /\ f_fn = "classify_ref"
    /\ f_out = <<>>
    /\ f_out' = <<classify_ref(f_in)>>
    /\ UNCHANGED <<f_fn, f_in, nonfunctions>>

FromStr ==
    /\ f_fn = "from_str"
    /\ f_out = <<>>
    /\ f_out' = <<from_str(f_in)>>
    /\ UNCHANGED <<f_fn, f_in, nonfunctions>>

\* parse_workflow, the jobs iterated in some order
ParseWorkflow ==
    /\ f_fn = "parse_workflow"
    /\ f_out = <<>>
    /\ \E order \in Orders(Len(f_in.jobs)) : f_out' = <<parse_workflow(f_in, order)>>
    /\ UNCHANGED <<f_fn, f_in, nonfunctions>>

\* parse_actions, the jobs iterated in some order
ParseActions ==
    /\ f_fn = "parse_actions"
    /\ f_out = <<>>
    /\ \E order \in Orders(Len(f_in.jobs)) : f_out' = <<parse_actions(f_in, order)>>
    /\ UNCHANGED <<f_fn, f_in, nonfunctions>>

ParseCompositeAction ==
    /\ f_fn = "parse_composite_action"
    /\ f_out = <<>>
    /\ f_out' = <<parse_composite_action(f_in)>>
    /\ UNCHANGED <<f_fn, f_in, nonfunctions>>

ParseAdvisories ==
    /\ f_fn = "parse_advisories"
    /\ f_out = <<>>
    /\ f_out' = <<parse_advisories(f_in)>>
    /\ UNCHANGED <<f_fn, f_in, nonfunctions>>

FormatRangeEvents ==
    /\ f_fn = "format_range_events"
    /\ f_out = <<>>
    /\ f_out' = <<format_range_events(f_in)>>
    /\ UNCHANGED <<f_fn, f_in, nonfunctions>>

ParseScanSelection ==
    /\ f_fn = "ScanSelection::from_str"
    /\ f_out = <<>>
    /\ f_out' = <<ScanSelectionFromStr(f_in.text)>>
    /\ UNCHANGED <<f_fn, f_in, nonfunctions>>

\* Two strings are parsed and the ActionRefs compared, as the BTreeSet of
\* parse_actions does with Ord and a HashSet<ActionRef> does with Eq.
CompareParsed ==
    /\ f_fn = "ActionRef::eq"
    /\ f_out = <<>>
    /\ LET left == from_str(f_in[1])
           right == from_str(f_in[2])
       IN f_out' = <<[left |-> left, right |-> right,
                      eq |-> IF left.ok /\ right.ok
                             THEN <<ActionRefEq(left.action, right.action)>>
                             ELSE <<>>,
                      cmp_equal |-> IF left.ok /\ right.ok
                                    THEN <<(~ActionRefLess(left.action, right.action)
                                            /\ ~ActionRefLess(right.action, left.action))>>
                                    ELSE <<>>]>>
    /\ UNCHANGED <<f_fn, f_in, nonfunctions>>

NextFunctions ==
    \/ ClassifyRef
    \/ FromStr
    \/ ParseWorkflow
    \/ ParseActions
    \/ ParseCompositeAction
    \/ ParseAdvisories
    \/ FormatRangeEvents
    \/ ParseScanSelection
    \/ CompareParsed

SpecFunctions == InitFunctions /\ [][NextFunctions]_vars

\* ------------------------------------------------------------ properties
SeqToSet(q) == {q[i] : i \in 1..Len(q)}

\* The nodes of a forest in pre-order, each with its nesting level and the raw
\* of the node it hangs under.
RECURSIVE Flatten(_, _, _)
Flatten(forest, level, parent) ==
    IF forest = <<>> THEN <<>>
    ELSE <<[raw |-> Head(forest).entry.action, level |-> level, parent |-> parent,
            entry |-> Head(forest).entry]>>
         \o Flatten(Head(forest).children, level + 1, Head(forest).entry.action)
         \o Flatten(Tail(forest), level, parent)

TreeNodes == Flatten(tree, 0, None)

\* How many times a raw was put on the frontier: as a root and as a child.
Occurrences(r) ==
    Cardinality({i \in 1..Len(roots) : roots[i] = r})
    + Cardinality({i \in 1..Len(enqueue_log) : enqueue_log[i].action = r})

\* C1: over the whole walk the pipeline is run at most once for each
\* distinct raw, whatever the roots and the reported children are.
C1_AtMostOnce == \A r \in Raws : runs[r] <= 1

\* A walk has ended in which some raw was put on the frontier more than once
\* (a duplicate root, a cycle, a shared child) and was run once.
C1_Witness ==
    /\ pc = "done"
    /\ \E r \in Raws : runs[r] = 1 /\ Occurrences(r) >= 2

\* C2: a node starts its pipeline run only when every node admitted at a
\* smaller depth has finished its run, and while a level runs the frontier
\* is drained.
C2_LevelBarrier ==
    /\ \A s \in started : \A i \in 1..Len(admitted) :
           admitted[i].depth < s.depth => admitted[i].raw \in finished
    /\ (pc = "join" => frontier = <<>>)

\* A node of depth 1 has started after a level of two nodes that ran side by side.
C2_Witness ==
    /\ max_concurrency = 2
    /\ \E s \in started : s.depth = 1
    /\ Cardinality({i \in 1..Len(admitted) : admitted[i].depth = 0}) = 2

\* C3: with max_depth = Some(k) every started node, every enqueued entry and
\* every node of the output tree has depth at most k, and the nesting level
\* of a tree node is the depth of its context.
C3_DepthBound ==
    /\ \A i \in 1..Len(TreeNodes) :
           TreeNodes[i].level = results[TreeNodes[i].raw].context.depth
    /\ max_depth # Unlimited =>
           /\ \A s \in started : s.depth <= max_depth[1]
           /\ \A i \in 1..Len(enqueue_log) : enqueue_log[i].depth <= max_depth[1]
           /\ \A i \in 1..Len(TreeNodes) : TreeNodes[i].level <= max_depth[1]

\* A walk with max_depth = Some(1) has ended in which a node at depth 1
\* reported a child that was never visited.
C3_Witness ==
    /\ pc = "done"
    /\ max_depth = Some(1)
    /\ \E r \in DOMAIN results :
           /\ results[r].context.depth = 1
           /\ \E c \in SeqToSet(results[r].context.children) : c \notin visited

\* The position in enqueue_log of the first entry for raw r.
FirstEnqueue(r) ==
    CHOOSE i \in 1..Len(enqueue_log) :
        /\ enqueue_log[i].action = r
        /\ \A j \in 1..(i - 1) : enqueue_log[j].action # r

\* C4: in the returned tree every raw appears at most once, every processed
\* node that is not a root appears below the top level, and every node below
\* the top level hangs under the parent of the first frontier entry for it.
C4_FirstParent ==
    pc = "done" =>
        /\ \A i, j \in 1..Len(TreeNodes) : i # j => TreeNodes[i].raw # TreeNodes[j].raw
        /\ \A r \in DOMAIN results :
               r \notin SeqToSet(root_keys) =>
                   \E i \in 1..Len(TreeNodes) : TreeNodes[i].raw = r /\ TreeNodes[i].level > 0
        /\ \A i \in 1..Len(TreeNodes) :
               TreeNodes[i].level > 0 =>
                   /\ \E k \in 1..Len(enqueue_log) : enqueue_log[k].action = TreeNodes[i].raw
                   /\ TreeNodes[i].parent = enqueue_log[FirstEnqueue(TreeNodes[i].raw)].parent_key

\* A walk has ended whose tree holds a node that two different parents enqueued.
C4_Witness ==
    /\ pc = "done"
    /\ \E i \in 1..Len(TreeNodes) :
           /\ TreeNodes[i].level > 0
           /\ \E k, l \in 1..Len(enqueue_log) :
                  /\ enqueue_log[k].action = TreeNodes[i].raw
                  /\ enqueue_log[l].action = TreeNodes[i].raw
                  /\ enqueue_log[k].parent_key # enqueue_log[l].parent_key

\* The tasks whose pipeline run is in progress.
InFlight == {i \in 1..Len(handles) : handles[i].status = "running"}

\* C5: at every moment at most max_concurrency pipeline runs are in progress.
C5_ConcurrencyBound == Cardinality(InFlight) <= max_concurrency

\* max_concurrency runs are in progress and a further task waits for a permit.
C5_Witness ==
    /\ Cardinality(InFlight) = max_concurrency
    /\ \E i \in 1..Len(handles) : handles[i].status = "spawned"

\* The tasks that hold a permit.
Holders == {i \in 1..Len(handles) : handles[i].status # "spawned" /\ handles[i].permit}

\* C6: a task holds a permit for as long as a stage of it is in progress,
\* every permit is either available or held by a task, and when a level has
\* completed all max_concurrency permits are available again.
C6_PermitScope ==
    /\ InFlight \subseteq Holders
    /\ semaphore + Cardinality(Holders) = max_concurrency
    /\ (pc \in {"loop", "done"} \/ JoinAllReady(handles)) => semaphore = max_concurrency

\* A level has completed in which a stage returned an error.
C6_Witness ==
    /\ pc = "loop"
    /\ semaphore = max_concurrency
    /\ \E r \in DOMAIN results :
           \E k \in 1..Len(results[r].context.errors) :
               results[r].context.errors[k].stage = "CompositeExpand"

\* The walk done one node at a time in frontier order, every node getting the
\* stage results recorded for its raw.
RECURSIVE SequentialWalk(_, _, _, _, _)
SequentialWalk(fr, vis, nodes, rk, co) ==
    IF fr = <<>> THEN build_tree(nodes, rk, co).result
    ELSE LET f == FilterVisited(fr, vis, <<>>)
             t == TrackKeys(f.to_process, rk, co)
             rs == [i \in 1..Len(f.to_process) |->
                      [key |-> f.to_process[i].key,
                       context |-> [results[f.to_process[i].key].context EXCEPT
                                       !.depth = f.to_process[i].depth,
                                       !.parent = f.to_process[i].parent_key,
                                       !.index = i - 1]]]
             c == CollectResults(rs, nodes, <<>>, <<>>, max_depth)
         IN SequentialWalk(c.frontier, f.visited, c.all_nodes, t.root_keys, t.children_order)

\* C7: the returned tree is the tree of the sequential walk over the same
\* roots and the same per-node stage results, whatever the order in which
\* the tasks of a level ran and completed and whatever max_concurrency is.
C7_OrderIndependent ==
    pc = "done" =>
        tree = SequentialWalk([i \in 1..Len(roots) |->
                                  [action |-> roots[i], depth |-> 0, parent_key |-> None]],
                              {}, EmptyMap, <<>>, EmptyMap)

\* Two roots completed in the reverse of their spawn order, and the child of
\* each is on the frontier in the order of the parents.
C7_Witness ==
    /\ pc = "loop"
    /\ level_finish = <<2, 1>>
    /\ Len(root_keys) = 2
    /\ Len(frontier) = 2
    /\ frontier[1].parent_key = root_keys[1]
    /\ frontier[2].parent_key = root_keys[2]

\* C8: run_one runs the stages one after the other in builder order, each
\* once, whatever the earlier stages returned: the stages run so far are a
\* prefix of the stage list, and all of it when run_one returns.
C8_StagesInOrder ==
    /\ Len(p_log) = p_next - 1
    /\ p_log = SubSeq(p_stages, 1, Len(p_log))
    /\ (p_pc = "done" => p_log = p_stages)

\* run_one has returned from a pipeline of three stages whose first stage
\* returned an error.
C8_Witness ==
    /\ p_pc = "done"
    /\ Len(p_stages) = 3
    /\ p_results[1] # Ok

\* C9: after a stage returned an error the context is the context the stage
\* left behind with exactly one entry {stage name, error text} appended to
\* errors; after a stage returned Ok it is the context the stage left behind.
C9_ErrorRecorded ==
    Len(p_log) >= 1 =>
        LET out == p_last.out IN
        IF out.result # Ok
        THEN /\ Len(p_ctx.errors) = Len(out.ctx.errors) + 1
             /\ SubSeq(p_ctx.errors, 1, Len(out.ctx.errors)) = out.ctx.errors
             /\ p_ctx.errors[Len(p_ctx.errors)] = [stage |-> p_last.name, message |-> out.result]
             /\ \A f \in DOMAIN p_ctx \ {"errors"} : p_ctx[f] = out.ctx[f]
        ELSE p_ctx = out.ctx

\* A stage has changed the context and then returned an error.
C9_Witness ==
    /\ Len(p_log) >= 1
    /\ p_last.out.result # Ok
    /\ p_last.out.ctx # p_last.before

\* The errors an output node shows.
NodeErrors(entry) == IF "errors" \in DOMAIN entry THEN entry.errors ELSE <<>>

\* C10: when a stage failed for a node, all stages have run for it and the
\* node is in the returned tree with its errors populated.
C10_FailedNodeShowsErrors ==
    pc = "done" =>
        \A r \in DOMAIN results :
            results[r].context.errors # <<>> =>
                /\ results[r].ran = Stages
                /\ \E i \in 1..Len(TreeNodes) :
                       TreeNodes[i].raw = r /\ NodeErrors(TreeNodes[i].entry) # <<>>

\* C11: every concrete stage turns a recoverable failure into an entry of
\* ctx.errors and returns Ok from run: no stage of a pipeline run returns Err.
C11_StagesReturnOk ==
    \A r \in DOMAIN results :
        \A k \in 1..Len(results[r].returned) : results[r].returned[k] = Ok

\* The raws reachable from `set` through the children the pipeline runs reported.
RECURSIVE Reach(_)
Reach(set) ==
    LET more == set \cup UNION {SeqToSet(results[r].context.children) :
                                  r \in set \cap DOMAIN results}
    IN IF more = set THEN set ELSE Reach(more)

\* C12: with max_depth = None the walk ends, and when it has ended the nodes
\* processed are exactly the raws reachable from the roots through the
\* children the pipeline reported.
C12_ExhaustsReachable ==
    /\ max_depth = Unlimited => <>(pc = "done")
    /\ [](max_depth = Unlimited /\ pc = "done" =>
                         /\ DOMAIN results = Reach(SeqToSet(roots))
                         /\ {TreeNodes[i].raw : i \in 1..Len(TreeNodes)} = Reach(SeqToSet(roots)))

\* An unlimited walk over a graph with a cycle has ended with every raw processed.
C12_Witness ==
    /\ pc = "done"
    /\ max_depth = Unlimited
    /\ DOMAIN results = GraphRaws
    /\ \E r \in DOMAIN results :
           /\ results[r].context.depth = 2
           /\ \E c \in SeqToSet(results[r].context.children) : c \in SeqToSet(roots)

\* The raws at the top level of the returned tree, in order.
TreeRoots == [i \in 1..Len(tree) |-> tree[i].entry.action]

\* A sequence without the repetitions of its elements: first occurrences only.
RECURSIVE FirstOccurrences(_, _)
FirstOccurrences(q, seen) ==
    IF q = <<>> THEN <<>>
    ELSE IF Head(q) \in seen THEN FirstOccurrences(Tail(q), seen)
    ELSE <<Head(q)>> \o FirstOccurrences(Tail(q), seen \cup {Head(q)})

\* With max_depth = Some(0) nothing is enqueued, only depth 0 is processed
\* and no node of the tree has children.
DepthZeroFlat ==
    /\ enqueue_log = <<>>
    /\ \A st \in started : st.depth = 0
    /\ (pc = "done" => \A i \in 1..Len(tree) : tree[i].children = <<>>)

\* C13 as stated: with max_depth = Some(0) the output is one childless node
\* per input root, in input order, and no reported child is enqueued or
\* processed.
C13_OneNodePerRoot ==
    max_depth = Some(0) =>
        /\ DepthZeroFlat
        /\ (pc = "done" => TreeRoots = roots)

\* C13 amended: with max_depth = Some(0) the output is one childless node per
\* distinct input root, in the order of first occurrence, and no reported
\* child is enqueued or processed.
C13_OneNodePerDistinctRoot ==
    max_depth = Some(0) =>
        /\ DepthZeroFlat
        /\ (pc = "done" => TreeRoots = FirstOccurrences(roots, {}))

\* A walk with max_depth = Some(0) over a repeated root has ended, and the
\* root had reported a child.
C13_Witness ==
    /\ pc = "done"
    /\ max_depth = Some(0)
    /\ \E i, j \in 1..Len(roots) :
           /\ i < j
           /\ roots[i] = roots[j]
           /\ results[roots[i]].context.children # <<>>

\* The raws admitted with parent n: those that passed the visited filter as
\* frontier entries pushed by n.
AdmittedUnder(n) == {admitted[i].raw : i \in {j \in 1..Len(admitted) : admitted[j].parent = n}}

\* What the pipeline run of n listed, cut down to the children admitted under n.
ListedAdmitted(n) ==
    SelectSeq(FirstOccurrences(results[n].context.children, {}),
              LAMBDA c : c \in AdmittedUnder(n))

\* Every node of the forest has its children in the order its run listed them.
RECURSIVE ChildrenInListedOrder(_)
ChildrenInListedOrder(forest) ==
    \A i \in 1..Len(forest) :
        /\ [j \in 1..Len(forest[i].children) |-> forest[i].children[j].entry.action]
               = ListedAdmitted(forest[i].entry.action)
        /\ ChildrenInListedOrder(forest[i].children)

\* The raws of a forest with their nesting: <<raw, shape of the children>>.
RECURSIVE Shape(_)
Shape(forest) == [i \in 1..Len(forest) |->
                    <<forest[i].entry.action, Shape(forest[i].children)>>]

\* C14: the roots of the returned tree are in the order of the input roots,
\* the children of every node are in the order its pipeline run listed them,
\* cut down to the children admitted under it, and for A -> [B, C], B -> [D]
\* the tree is A(children = [B(children = [D]), C]).
C14_OutputOrder ==
    pc = "done" =>
        /\ TreeRoots = FirstOccurrences(roots, {})
        /\ ChildrenInListedOrder(tree)
        /\ (/\ world = Graph(<<"B", "C">>, <<"D">>, <<>>, <<>>)
            /\ roots = <<"A">>
            /\ max_depth = Unlimited
            /\ \A r \in DOMAIN results : results[r].context.errors = <<>>)
           => Shape(tree) = << <<"A", << <<"B", << <<"D", <<>> >> >> >>,
                                         <<"C", <<>> >> >> >> >>

\* The walk of A -> [B, C], B -> [D] from the root A has ended with every
\* node processed, B and C having run side by side.
C14_Witness ==
    /\ pc = "done"
    /\ world = Graph(<<"B", "C">>, <<"D">>, <<>>, <<>>)
    /\ roots = <<"A">>
    /\ max_concurrency = 2
    /\ DOMAIN results = GraphRaws

\* C15: with max_concurrency = 1 the nodes of a level are processed one at a
\* time in frontier order: a run is in progress only when every task spawned
\* ahead of it has completed, and the runs complete in spawn order.
C15_FrontierOrder ==
    max_concurrency = 1 =>
        /\ Cardinality(InFlight) <= 1
        /\ \A i \in InFlight : \A j \in 1..(i - 1) : handles[j].status = "finished"
        /\ \A k \in 1..Len(level_finish) : level_finish[k] = k

\* The identifiers of an advisory: its id and its aliases.
Idents(adv) == {adv.id} \cup adv.aliases

\* The sets of positions of xs that hold exactly the advisories none of whose
\* identifiers is an identifier of an earlier advisory of the set.
KeptSets(xs) ==
    {K \in SUBSET (1..Len(xs)) :
        \A i \in 1..Len(xs) :
            (i \in K) <=> (Idents(xs[i]) \cap UNION {Idents(xs[j]) : j \in {k \in K : k < i}} = {})}

\* The elements of xs at the positions of K, in the order of xs.
RECURSIVE Pick(_, _, _)
Pick(xs, K, i) ==
    IF i > Len(xs) THEN <<>>
    ELSE (IF i \in K THEN <<xs[i]>> ELSE <<>>) \o Pick(xs, K, i + 1)

\* C16: deduplicate_advisories keeps an advisory exactly when neither its id
\* nor any of its aliases is among the ids and aliases of the advisories kept
\* before it, and returns the kept advisories in the order of the input.
C16_KeepsFirstOfGroup ==
    d_pc \notin {"off", "first"} =>
        /\ Cardinality(KeptSets(d_in)) = 1
        /\ \A K \in KeptSets(d_in) : d_out = Pick(d_in, K, 1)

\* Of three advisories the second was dropped and the third kept, although
\* the third shares an identifier with the dropped one.
C16_Witness ==
    /\ d_pc = "done"
    /\ Len(d_in) = 3
    /\ d_out = <<d_in[1], d_in[3]>>
    /\ Idents(d_in[2]) \cap Idents(d_in[3]) # {}

\* C17: dedup(dedup(xs)) = dedup(xs) and dedup(xs ++ xs) = dedup(xs).
C17_Idempotent ==
    /\ (d_pc \in {"doubled", "done"} => d_twice = d_out)
    /\ (d_pc = "done" => d_doubled = d_out)

\* All three calls have returned for a list of which one advisory was dropped
\* and two were kept.
C17_Witness ==
    /\ d_pc = "done"
    /\ Len(d_in) = 3
    /\ Len(d_out) = 2
    /\ d_twice = d_out
    /\ d_doubled = d_out

\* C18: of two advisories of which one's id is among the other's aliases,
\* only the first is returned.
C18_AliasedPair ==
    (/\ d_pc \notin {"off", "first"}
     /\ Len(d_in) = 2
     /\ (d_in[1].id \in d_in[2].aliases \/ d_in[2].id \in d_in[1].aliases))
    => d_out = <<d_in[1]>>

\* A pair was deduplicated in which only the first advisory names the second:
\* the ids differ and the second has no aliases.
C18_Witness ==
    /\ d_pc = "done"
    /\ Len(d_in) = 2
    /\ d_in[1].id # d_in[2].id
    /\ d_in[2].id \in d_in[1].aliases
    /\ d_in[2].aliases = {}
    /\ d_out = <<d_in[1]>>

\* The advisories of the providers that answered, from provider i on, in the
\* order the providers were declared.
RECURSIVE ConcatOk(_, _)
ConcatOk(providers, i) ==
    IF i > Len(providers) THEN <<>>
    ELSE (IF providers[i].answer.ok THEN providers[i].answer.advisories ELSE <<>>)
         \o ConcatOk(providers, i + 1)

\* The providers whose query failed.
FailedProviders == {i \in 1..Len(a_providers) : ~a_providers[i].answer.ok}

\* C19: the list AdvisoryStage hands to deduplication is the successful
\* providers' results concatenated in declared provider order, whatever the
\* order in which the queries completed, so the records that survive are
\* those that come first in declared provider order.
C19_DeclaredOrder ==
    a_pc = "done" =>
        /\ a_fed = ConcatOk(a_providers, 1)
        /\ \A K \in KeptSets(ConcatOk(a_providers, 1)) :
               a_ctx.advisories = Pick(ConcatOk(a_providers, 1), K, 1)

\* The second provider answered before the first, both with a record of the
\* same aliased group, and the record of the first provider survived.
C19_Witness ==
    /\ a_pc = "done"
    /\ a_completion = <<2, 1>>
    /\ a_providers[1].answer.ok /\ a_providers[2].answer.ok
    /\ Len(a_providers[1].answer.advisories) = 1
    /\ Len(a_providers[2].answer.advisories) = 1
    /\ a_fed[1] # a_fed[2]
    /\ a_ctx.advisories = <<a_providers[1].answer.advisories[1]>>

\* C20: whatever providers fail, AdvisoryStage returns Ok, ctx.advisories is
\* the deduplicated advisories of the providers that succeeded, and
\* ctx.errors has one entry per failed provider, of stage Advisory, whose
\* message names that provider.
C20_PartialFailure ==
    a_pc = "done" =>
        /\ a_ret = Ok
        /\ a_ctx.advisories = deduplicate_advisories(ConcatOk(a_providers, 1))
        /\ Len(a_ctx.errors) = Cardinality(FailedProviders)
        /\ \A k \in 1..Len(a_ctx.errors) : a_ctx.errors[k].stage = "Advisory"
        /\ \A i \in FailedProviders :
               Cardinality({k \in 1..Len(a_ctx.errors) :
                               a_ctx.errors[k].message[1] = a_providers[i].name}) = 1

\* The first provider failed and the second answered with advisories.
C20_Witness ==
    /\ a_pc = "done"
    /\ Len(a_providers) = 2
    /\ FailedProviders = {1}
    /\ a_ctx.advisories # <<>>
    /\ Len(a_ctx.errors) = 1

\* C21: for a ref of type Sha, resolve_ref returns the git_ref itself, no
\* request is ever sent, and the stage stores the git_ref as resolved_ref.
C21_ShaImmediate ==
    r_pc # "off" /\ r_action.ref_type = "Sha" =>
        /\ r_requests = <<>>
        /\ r_pc \in {"start", "done"}
        /\ (r_pc = "done" => /\ r_ret = Returned(r_action.git_ref)
                             /\ r_ctx.resolved_ref = r_action.git_ref
                             /\ r_ctx.errors = <<>>)

\* resolve_ref has returned for a sha ref.
C21_Witness ==
    /\ r_pc = "done"
    /\ r_action.ref_type = "Sha"
    /\ r_ret.ok

\* The last answer resolve_ref got.
LastAnswer == r_requests[Len(r_requests)].answer

\* The urls requested so far, in order.
RequestUrls == [i \in 1..Len(r_requests) |-> r_requests[i].url]

\* C22: for a ref that is not a sha, the tag is looked up first and the
\* branch only after the tag lookup answered 404; a ref object of type commit
\* yields its sha, one of type tag yields the sha nested in the tag object
\* fetched by one further request, and any other type is an error.
C22_TagThenBranch ==
    (r_pc \notin {"off", "start"} /\ r_action.ref_type # "Sha") =>
        /\ \A i \in 1..Len(r_requests) :
               /\ (r_requests[i].url = "git/ref/tags" <=> i = 1)
               /\ (r_requests[i].url = "git/ref/heads" =>
                       i = 2 /\ r_requests[1].answer = NotFound)
               /\ (r_requests[i].url = "git/tags" =>
                       /\ i = Len(r_requests)
                       /\ r_requests[i - 1].url # "git/tags"
                       /\ r_requests[i - 1].answer.status = "200"
                       /\ "object" \in DOMAIN r_requests[i - 1].answer.body
                       /\ r_requests[i - 1].answer.body.object.type = "tag")
        /\ (r_pc = "branch" <=> (Len(r_requests) = 1 /\ LastAnswer = NotFound))
        /\ (r_pc = "done" =>
               LET last == LastAnswer
                   url == r_requests[Len(r_requests)].url
                   whole == /\ last.status = "200"
                            /\ "object" \in DOMAIN last.body
                            /\ last.body.object.sha # Missing
               IN /\ (url # "git/tags" /\ whole /\ last.body.object.type = "commit"
                         => r_ret = Returned(last.body.object.sha))
                  /\ (url # "git/tags" /\ whole /\ last.body.object.type \notin {"commit", "tag"}
                         => ~r_ret.ok)
                  /\ (url = "git/tags" /\ whole => r_ret = Returned(last.body.object.sha))
                  /\ (~whole => ~r_ret.ok)
                  /\ (url # "git/tags" /\ whole => last.body.object.type # "tag")
                  /\ (r_ret.ok => r_ctx.resolved_ref = r_ret.sha))

\* A branch that points at an annotated tag object was resolved: the tag
\* lookup answered 404, the branch lookup a tag object, and the tag object
\* gave the commit.
C22_Witness ==
    /\ r_pc = "done"
    /\ RequestUrls = <<"git/ref/tags", "git/ref/heads", "git/tags">>
    /\ r_ret = Returned("sha-of-commit")

\* The ecosystems the scan of the context found (none without a scan).
ScannedEcosystems == IF n_ctx.scan = <<>> THEN {} ELSE SeqToSet(n_ctx.scan[1].ecosystems)

\* C23: unless ctx.scan is present and its ecosystems contain npm,
\* DependencyStage sends no request, leaves ctx.dependencies empty and
\* records no error.
C23_NothingWithoutNpm ==
    (n_pc # "off" /\ "npm" \notin ScannedEcosystems) =>
        /\ n_requests = <<>>
        /\ n_packages = <<>>
        /\ n_ctx.dependencies = <<>>
        /\ n_ctx.errors = <<>>
        /\ n_pc \in {"fetch", "done"}

\* The stage has returned for a context whose scan found ecosystems, npm not
\* among them.
C23_Witness ==
    /\ n_pc = "done"
    /\ ScannedEcosystems # {}
    /\ "npm" \notin ScannedEcosystems

\* What the providers answered for the package `name`, successes only, in
\* the order of the queries.
RECURSIVE AnsweredFor(_, _)
AnsweredFor(requests, name) ==
    IF requests = <<>> THEN <<>>
    ELSE LET q == Head(requests)
         IN (IF q.url = "query" /\ q.package = name /\ q.answer.ok
             THEN q.answer.advisories ELSE <<>>)
            \o AnsweredFor(Tail(requests), name)

\* The packages the providers were asked about.
QueriedPackages == {n_requests[i].package : i \in {j \in 1..Len(n_requests) : n_requests[j].url = "query"}}

\* C24: every report in ctx.dependencies has a non-empty advisories list,
\* the deduplicated provider results for its package, and a package whose
\* deduplicated list is empty has no report.
C24_ReportsNonEmpty ==
    n_pc = "done" =>
        /\ \A i \in 1..Len(n_ctx.dependencies) :
               LET report == n_ctx.dependencies[i]
               IN /\ report.advisories # <<>>
                  /\ report.advisories = deduplicate_advisories(AnsweredFor(n_requests, report.package))
                  /\ \A j \in 1..Len(n_ctx.dependencies) :
                         n_ctx.dependencies[j].package = report.package => i = j
        /\ \A name \in QueriedPackages :
               AnsweredFor(n_requests, name) = <<>> =>
                   \A i \in 1..Len(n_ctx.dependencies) : n_ctx.dependencies[i].package # name

\* Two packages were queried at two providers: one got the same advisory
\* under two ids and has a report of one advisory, the other got nothing and
\* has no report.
C24_Witness ==
    /\ n_pc = "done"
    /\ Cardinality(QueriedPackages) = 2
    /\ Len(n_providers) = 2
    /\ Len(n_ctx.dependencies) = 1
    /\ Len(AnsweredFor(n_requests, n_ctx.dependencies[1].package)) = 2
    /\ Len(n_ctx.dependencies[1].advisories) = 1

\* How often x occurs in the sequence q.
TimesIn(q, x) == Cardinality({i \in 1..Len(q) : q[i] = x})

\* The uses of the jobs that are well-formed mappings, read off the document
\* in its own order: the job-level uses, then those of the steps.
RECURSIVE DocumentUses(_)
DocumentUses(jobs) ==
    IF jobs = <<>> THEN <<>>
    ELSE LET job == Head(jobs)
             steps == IF job.steps = <<>> THEN <<>> ELSE job.steps[1]
             of_steps == [i \in 1..Len(steps) |-> steps[i].uses]
             present == {i \in 1..Len(steps) : of_steps[i] # <<>>}
             nth(k) == CHOOSE i \in present : Cardinality({j \in present : j < i}) = k - 1
         IN (IF job.shape = "mapping"
             THEN job.uses \o [k \in 1..Cardinality(present) |-> of_steps[nth(k)][1]]
             ELSE <<>>)
            \o DocumentUses(Tail(jobs))

\* parse_workflow returns, with each uses string as often as the well-formed
\* jobs of the document hold it.
ReturnsUsesOfOtherJobs ==
    f_out[1].ok => \A u \in UsesStrings :
        TimesIn(f_out[1].uses, u) = TimesIn(DocumentUses(f_in.jobs), u)

RECURSIVE KeptUses(_)
KeptUses(steps) ==
    IF steps = <<>> THEN <<>>
    ELSE LET u == Head(steps).uses
         IN (IF /\ u # <<>>
                /\ ~starts_with(u[1], <<".", "/">>)
                /\ ~starts_with(u[1], <<"d", "o", "c", "k", "e", "r", ":", "/", "/">>)
                /\ from_str(u[1]).ok
             THEN u ELSE <<>>)
            \o KeptUses(Tail(steps))

\* C26: parse_composite_action returns None when the document has no runs
\* or runs.using is not composite, Some([]) for a composite action without
\* steps, and otherwise the third-party refs of the steps in step order,
\* local steps, docker steps and unparseable refs left out.
C26_CompositeChildren ==
    (f_fn = "parse_composite_action" /\ f_out # <<>> /\ f_in.kind = "action") =>
        LET out == f_out[1]
        IN IF f_in.runs = <<>> THEN out.ok /\ ~out.some
           ELSE LET declared == f_in.runs[1]
                    kept == IF declared.steps = <<>> THEN <<>> ELSE KeptUses(declared.steps[1])
                IN /\ (declared.using \notin {"composite", Missing_using} => out.ok /\ ~out.some)
                   /\ (declared.using = "composite" =>
                          /\ out.ok /\ out.some
                          /\ Len(out.children) = Len(kept)
                          /\ \A i \in 1..Len(kept) :
                                 /\ out.children[i].raw = kept[i]
                                 /\ out.children[i] = from_str(kept[i]).action)

\* A composite action with a local step and a third-party step was parsed
\* and gave the one child.
C26_Witness ==
    /\ f_fn = "parse_composite_action"
    /\ f_out # <<>>
    /\ f_in.runs # <<>>
    /\ f_in.runs[1].using = "composite"
    /\ f_in.runs[1].steps = <<<<[uses |-> <<UsesLocal>>], [uses |-> <<UsesAB>>]>>>>
    /\ f_out[1].some
    /\ Len(f_out[1].children) = 1

\* C27: the roots of a workflow file are exactly its third-party uses refs,
\* those starting with ./ or docker:// left out, without duplicates and
\* sorted by (owner, repo, path, git_ref), whatever the job order.
C27_SortedUniqueRoots ==
    (f_fn = "parse_actions" /\ f_out # <<>> /\ f_out[1].ok) =>
        LET sorted == f_out[1].roots
            uses == SeqToSet(DocumentUses(f_in.jobs))
            third_party == {u \in uses : /\ ~starts_with(u, <<".", "/">>)
                                          /\ ~starts_with(u, <<"d", "o", "c", "k", "e", "r", ":", "/", "/">>)
                                          /\ from_str(u).ok}
        IN /\ SeqToSet(sorted) = {from_str(u).action : u \in third_party}
           /\ \A i, j \in 1..Len(sorted) : i < j => ActionRefLess(sorted[i], sorted[j])

\* A workflow that lists b/a@v2 before a/b@v1, a/b@v1 twice, a local action
\* and a docker image gave two roots.
C27_Witness ==
    /\ f_fn = "parse_actions"
    /\ f_out # <<>>
    /\ f_out[1].ok
    /\ Len(f_in.jobs) = 2
    /\ DocumentUses(f_in.jobs) # <<>>
    /\ DocumentUses(f_in.jobs)[1] = UsesBA
    /\ TimesIn(DocumentUses(f_in.jobs), UsesAB) = 2
    /\ TimesIn(DocumentUses(f_in.jobs), UsesLocal) = 1
    /\ Len(f_out[1].roots) = 2
    /\ f_out[1].roots[1].raw = UsesAB

\* C28: ref_type(r) is Sha iff r has exactly 40 characters, all of them ASCII
\* hex digits; otherwise Tag iff r without an optional leading v starts with
\* an ASCII digit; otherwise Unknown.
C28_RefType ==
    (f_fn = "classify_ref" /\ f_out # <<>>) =>
        LET r == f_in
            sha == Len(r) = ShaLen /\ \A i \in 1..Len(r) : r[i] \in AsciiHexDigits
            rest == IF r # <<>> /\ r[1] = "v" THEN SubSeq(r, 2, Len(r)) ELSE r
            tag == rest # <<>> /\ rest[1] \in AsciiDigits
        IN f_out[1] = IF sha THEN "Sha" ELSE IF tag THEN "Tag" ELSE "Unknown"

\* A ref of v and a digit was classified as a tag.
C28_Witness ==
    /\ f_fn = "classify_ref"
    /\ f_out = <<"Tag">>
    /\ Len(f_in) = ShaLen + 1
    /\ f_in[1] = "v"
    /\ f_in[2] = "1"

\* C29: every ActionRef that parsing accepts has an @ in its raw string, a
\* non-empty owner and a non-empty repo.
C29_OwnerAndRepo ==
    (f_fn = "from_str" /\ f_out # <<>> /\ f_out[1].ok) =>
        /\ \E i \in 1..Len(f_in) : f_in[i] = "@"
        /\ f_out[1].action.owner # <<>>
        /\ f_out[1].action.repo # <<>>

\* C30 as stated: the affected_range of each advisory of the GHSA provider
\* is the vulnerable_version_range of the first vulnerability entry of its
\* record.
C30_FirstEntryRange ==
    (f_fn = "parse_advisories" /\ f_out # <<>> /\ f_out[1].ok) =>
        /\ Len(f_out[1].advisories) = Len(f_in.records)
        /\ \A i \in 1..Len(f_in.records) :
               LET v == f_in.records[i].vulnerabilities
               IN f_out[1].advisories[i].affected_range = IF v = <<>> THEN <<>> ELSE v[1]

\* C30, amended: the affected_range of each advisory of the GHSA provider is
\* the first vulnerable_version_range that is present among the
\* vulnerability entries of its record, and absent when none is.
C30_FirstPresentRange ==
    (f_fn = "parse_advisories" /\ f_out # <<>> /\ f_out[1].ok) =>
        /\ Len(f_out[1].advisories) = Len(f_in.records)
        /\ \A i \in 1..Len(f_in.records) :
               LET v == f_in.records[i].vulnerabilities
                   present == {k \in 1..Len(v) : v[k] # <<>>}
                   range == f_out[1].advisories[i].affected_range
               IN IF present = {} THEN range = <<>>
                  ELSE \E k \in present : range = v[k] /\ \A j \in present : k <= j

\* A record whose first vulnerability entry has no range and whose second
\* has one was parsed.
C30_Witness ==
    /\ f_fn = "parse_advisories"
    /\ f_out # <<>>
    /\ f_out[1].ok
    /\ Len(f_in.records) = 1
    /\ f_in.records[1].vulnerabilities = <<<<>>, <<"< 2.0.0">>>>
    /\ f_out[1].advisories[1].affected_range = <<"< 2.0.0">>

\* The members of the events that are written, as (event, member) pairs in
\* the order of the events and, within one event, introduced (1), fixed (2),
\* last_affected (3); an introduced "0" is not written.
WrittenMembers(events) ==
    {<<i, 1>> : i \in {k \in 1..Len(events) :
                          events[k].introduced # <<>> /\ events[k].introduced[1] # "0"}}
    \cup {<<i, 2>> : i \in {k \in 1..Len(events) : events[k].fixed # <<>>}}
    \cup {<<i, 3>> : i \in {k \in 1..Len(events) : events[k].last_affected # <<>>}}

\* The n-th written member.
NthWritten(events, n) ==
    CHOOSE m \in WrittenMembers(events) :
        Cardinality({x \in WrittenMembers(events) :
                        x[1] < m[1] \/ (x[1] = m[1] /\ x[2] < m[2])}) = n - 1

\* C31: format_range_events writes, for each event in order, ">= v" for an
\* introduced v other than "0", "< v" for a fixed v and "<= v" for a
\* last_affected v, joined with ", "; an introduced "0" writes nothing.
C31_RangeFormat ==
    (f_fn = "format_range_events" /\ f_out # <<>>) =>
        LET out == f_out[1]
            n == Cardinality(WrittenMembers(f_in))
        IN /\ Len(out) = IF n = 0 THEN 0 ELSE 3 * n - 1
           /\ \A k \in 1..n :
                  LET m == NthWritten(f_in, k)
                      event == f_in[m[1]]
                  IN /\ out[3 * k - 2] = <<">= ", "< ", "<= ">>[m[2]]
                     /\ out[3 * k - 1] = <<event.introduced, event.fixed, event.last_affected>>[m[2]][1]
                     /\ k < n => out[3 * k] = ", "

\* The events [{introduced: "0"}, {fixed: "1.0"}] were formatted as "< 1.0".
C31_Witness ==
    /\ f_fn = "format_range_events"
    /\ f_in = <<[introduced |-> <<"0">>, fixed |-> <<>>, last_affected |-> <<>>],
                [introduced |-> <<>>, fixed |-> <<"1.0">>, last_affected |-> <<>>]>>
    /\ f_out = <<<<"< ", "1.0">>>>

\* The positions a selection can be asked about.
Positions == 1..(12 + 1)

\* C32: the empty selection spec selects every position, as "all" does.
C32_EmptyIsAll ==
    (f_fn = "ScanSelection::from_str" /\ f_out # <<>> /\ f_in.text = <<>>) =>
        /\ f_out[1] = ScanSelectionFromStr(<<"a", "l", "l">>)
        /\ \A p \in Positions : should_scan(f_out[1], p - 1)

\* The positions of an item: N for N, N..M for N-M.
ItemPositions(item) == IF Len(item) = 1 THEN {item[1]} ELSE item[1]..item[2]

\* An item that is 0, has 0 as an end, or is N-M with N > M.
BadItem(item) ==
    IF Len(item) = 1 THEN item[1] = 0
    ELSE item[1] = 0 \/ item[2] = 0 \/ item[1] > item[2]

\* C33: parsing a selection spec fails whenever an item is 0, a range has 0
\* as an end or a range N-M has N > M; an accepted spec yields the sorted,
\* duplicate-free union of the positions of its items.
C33_SelectionItems ==
    (f_fn = "ScanSelection::from_str" /\ f_out # <<>> /\ f_in.items # <<>>) =>
        LET out == f_out[1]
            items == f_in.items
        IN /\ (\E i \in 1..Len(items) : BadItem(items[i])) => ~out.ok
           /\ out.ok =>
                 /\ out.kind = "Indices"
                 /\ SeqToSet(out.indices) = UNION {ItemPositions(items[i]) : i \in 1..Len(items)}
                 /\ \A i, j \in 1..Len(out.indices) : i < j => out.indices[i] < out.indices[j]
                 /\ \A p \in Positions :
                        should_scan(out, p - 1) <=> \E i \in 1..Len(items) : p \in ItemPositions(items[i])

\* The spec "2-12,1-3" was accepted: overlapping ranges, the later one
\* starting lower.
C33_Witness ==
    /\ f_fn = "ScanSelection::from_str"
    /\ f_out # <<>>
    /\ f_in.items = <<<<2, 12>>, <<1, 3>>>>
    /\ f_out[1].ok
    /\ Len(f_out[1].indices) = 12

\* The contexts the walker has built so far: those of the tasks of the
\* current level and those of the nodes already returned.
BuiltContexts ==
    {handles[i].ctx : i \in {k \in 1..Len(handles) : handles[k].status # "spawned"}}
    \cup {results[r].context : r \in DOMAIN results}

\* C34: every context the walker builds has depth 0 and no parent if it is
\* a root; otherwise its depth is its parent's depth plus 1, its parent is
\* the raw of the node whose children list enqueued it, and the parent was
\* processed before the child was started.
C34_DepthAndParent ==
    \A ctx \in BuiltContexts :
        /\ ctx.action \in SeqToSet(roots) => ctx.depth = 0 /\ ctx.parent = None
        /\ ctx.parent = None => ctx.depth = 0 /\ ctx.action \in SeqToSet(roots)
        /\ ctx.parent # None =>
               /\ ctx.parent \in finished
               /\ ctx.parent \in DOMAIN results
               /\ ctx.depth = results[ctx.parent].context.depth + 1
               /\ ctx.action \in SeqToSet(results[ctx.parent].context.children)
               /\ \E k \in 1..Len(enqueue_log) :
                      enqueue_log[k] = [action |-> ctx.action, depth |-> ctx.depth,
                                        parent_key |-> ctx.parent]
               /\ [raw |-> ctx.action, depth |-> ctx.depth, parent |-> ctx.parent] \in started

\* A context of depth 2 is being run whose raw two different nodes listed
\* as a child.
C34_Witness ==
    \E i \in 1..Len(handles) :
        /\ handles[i].status = "running"
        /\ handles[i].ctx.depth = 2
        /\ \E k, l \in 1..Len(enqueue_log) :
               /\ enqueue_log[k].action = handles[i].ctx.action
               /\ enqueue_log[l].action = handles[i].ctx.action
               /\ enqueue_log[k].parent_key # enqueue_log[l].parent_key

\* The number of pipeline runs of the walk so far.
RECURSIVE SumRuns(_)
SumRuns(set) ==
    IF set = {} THEN 0
    ELSE LET r == CHOOSE x \in set : TRUE IN runs[r] + SumRuns(set \ {r})

\* C35: every node processed by the pipeline appears exactly once in the
\* output tree: the tree has as many nodes as there were pipeline runs, and
\* after tree assembly no processed context is left in all_nodes.
C35_TreeHoldsEveryRun ==
    pc = "done" =>
        /\ Len(TreeNodes) = SumRuns(DOMAIN runs)
        /\ \A r \in DOMAIN results :
               Cardinality({i \in 1..Len(TreeNodes) : TreeNodes[i].raw = r}) = 1
        /\ \A r \in DOMAIN runs : runs[r] > 0 => r \in DOMAIN results
        /\ DOMAIN all_nodes = {}

\* A walk has ended after four pipeline runs, one of them for a raw that
\* was put on the frontier more than once.
C35_Witness ==
    /\ pc = "done"
    /\ SumRuns(DOMAIN runs) = 4
    /\ Len(TreeNodes) = 4
    /\ \E r \in DOMAIN results : Occurrences(r) >= 2

\* The raws at most n steps away from the root list in the graph of the
\* children that the pipeline runs reported.
RECURSIVE Within(_)
Within(n) ==
    IF n = 0 THEN SeqToSet(roots)
    ELSE LET near == Within(n - 1)
         IN near \cup UNION {SeqToSet(results[r].context.children) :
                               r \in near \cap DOMAIN results}

\* The shortest-path distance of a reachable raw from the root list.
Distance(r) ==
    CHOOSE n \in 0..Cardinality(DOMAIN runs) :
        /\ r \in Within(n)
        /\ \A m \in 0..(n - 1) : r \notin Within(m)

\* C36: the depth of every processed node is its shortest-path distance
\* from the root list in the graph of reported children, and a walk with
\* max_depth = Some(k) ends with exactly the raws within distance k
\* processed.
C36_DepthIsDistance ==
    /\ \A r \in DOMAIN results :
           /\ r \in Within(Cardinality(DOMAIN runs))
           /\ results[r].context.depth = Distance(r)
    /\ (pc = "done" /\ max_depth # Unlimited) => DOMAIN results = Within(max_depth[1])

\* A walk with max_depth = Some(1) has ended in which a node processed at
\* depth 1 was also listed by another node of depth 1, and a raw two steps
\* away was left unprocessed.
C36_Witness ==
    /\ pc = "done"
    /\ max_depth = Some(1)
    /\ \E r, q \in DOMAIN results :
           /\ r # q
           /\ results[r].context.depth = 1
           /\ results[q].context.depth = 1
           /\ r \in SeqToSet(results[q].context.children)
    /\ Within(2) # Within(1)

\* C37: in the output of deduplicate_advisories no two advisories share an
\* identifier (the id-and-aliases sets of any two kept advisories are
\* disjoint), and every dropped advisory shares an identifier with an
\* advisory kept before it.
C37_NoSharedIdentifier ==
    d_pc \notin {"off", "first"} =>
        /\ \A i, j \in 1..Len(d_out) :
               i # j => Idents(d_out[i]) \cap Idents(d_out[j]) = {}
        /\ \E kept \in SUBSET (1..Len(d_in)) :
               /\ d_out = Pick(d_in, kept, 1)
               /\ \A i \in (1..Len(d_in)) \ kept :
                      \E j \in kept : j < i /\ Idents(d_in[i]) \cap Idents(d_in[j]) # {}

\* Of three advisories the second was dropped for an alias that is also an
\* alias of the first, its id being new, and the third was kept.
C37_Witness ==
    /\ d_pc = "done"
    /\ Len(d_in) = 3
    /\ d_out = <<d_in[1], d_in[3]>>
    /\ d_in[2].id \notin Idents(d_in[1])
    /\ d_in[2].aliases \cap d_in[1].aliases # {}
    /\ d_in[3].id = d_in[2].id

\* C38: two ActionRefs produced by parsing are equal under (owner, repo,
\* path, git_ref) exactly when their raw strings are equal, and they compare
\* as equal under Ord in the same cases: identity by raw and identity by
\* ActionRef never disagree.
C38_EqualIffSameRaw ==
    (f_fn = "ActionRef::eq" /\ f_out # <<>> /\ f_out[1].eq # <<>>) =>
        LET out == f_out[1]
        IN /\ out.left.action.raw = f_in[1]
           /\ out.right.action.raw = f_in[2]
           /\ out.eq[1] <=> (out.left.action.raw = out.right.action.raw)
           /\ out.cmp_equal[1] <=> (out.left.action.raw = out.right.action.raw)

\* "/@" and "//@" were parsed and compared: owner, repo and git_ref are the
\* same empty strings, the path is absent in one and empty in the other,
\* and the two are not equal.
C38_Witness ==
    /\ f_fn = "ActionRef::eq"
    /\ f_in = <<<<"/", "@">>, <<"/", "/", "@">>>>
    /\ f_out # <<>>
    /\ f_out[1].left.action.path = <<>>
    /\ f_out[1].right.action.path = <<<<>>>>
    /\ f_out[1].eq = <<FALSE>>

\* The requests for a tag object sent so far.
Dereferences == {i \in 1..Len(r_requests) : r_requests[i].url = "git/tags"}

\* The ref lookup was answered with an annotated tag: a ref object of type
\* tag that carries a sha.
AnnotatedTag(answer) ==
    /\ answer.status = "200"
    /\ "object" \in DOMAIN answer.body
    /\ answer.body.object.type = "tag"
    /\ answer.body.object.sha # Missing

\* C39: resolve_ref sends at most three requests whatever the ref and the
\* answers are, and it always returns; an annotated tag is dereferenced
\* exactly once, by the last request, and the sha of the nested object is
\* returned as it is, whatever the type of that object.
C39_ThreeRequestsAndReturns ==
    /\ [](r_pc # "off" =>
            /\ Len(r_requests) <= 3
            /\ Cardinality(Dereferences) <= 1
            /\ (r_pc = "done" =>
                   /\ \A i \in Dereferences :
                          /\ i = Len(r_requests)
                          /\ i > 1
                          /\ AnnotatedTag(r_requests[i - 1].answer)
                          /\ (r_requests[i].answer.status = "200"
                              /\ r_requests[i].answer.body.object.sha # Missing)
                             => r_ret = Returned(r_requests[i].answer.body.object.sha)
                   /\ \A i \in 1..Len(r_requests) :
                          (r_requests[i].url # "git/tags" /\ AnnotatedTag(r_requests[i].answer))
                          => i + 1 \in Dereferences))
    /\ <>(r_pc = "done")

\* A tag was found at the first lookup as an annotated tag whose nested
\* object is again a tag: two requests were sent and the nested sha returned.
C39_Witness ==
    /\ r_pc = "done"
    /\ RequestUrls = <<"git/ref/tags", "git/tags">>
    /\ r_requests[2].answer.status = "200"
    /\ r_requests[2].answer.body.object.type = "tag"
    /\ r_ret = Returned("sha-of-commit")

====
